---- MODULE Spec2Model ----
(***************************************************************************)
(* A model of the Sudoku solver of rowanc1/sudoku: solveSudoku builds a    *)
(* candidate grid, records an initial snapshot and runs the scheduler      *)
(* applyLogicalStrategies, which calls seven elimination strategies in a   *)
(* fixed order on one shared game {board, candidates, snapshots}.          *)
(*                                                                         *)
(* Rows, columns and box indices are 0-based as in the source.  A          *)
(* candidate Set<number> is a TLA+ set: every set the solver builds is     *)
(* filled in ascending order and only ever shrinks, so its iteration       *)
(* order is the ascending one (SetToSeq).  An optional field that is       *)
(* undefined in the source is a field that is absent from the record.      *)
(***************************************************************************)
EXTENDS Integers, Sequences, FiniteSets, TLC

VARIABLES startingBoard, options, board, candidates, snapshots, changed, pc,
          frames, returned

vars == <<startingBoard, options, board, candidates, snapshots, changed, pc,
         frames, returned>>

BOARD_SIZE == 9
BOX_SIZE == 3

Idx == 0 .. (BOARD_SIZE - 1)
BoxIdx == 0 .. (BOX_SIZE - 1)
Digits == 1 .. 9
NumCells == BOARD_SIZE * BOARD_SIZE

(***************************************************************************)
(* Helpers for the source's array and Set idioms.                          *)
(***************************************************************************)
\* iterating a Set of digits that was filled in ascending order: its elements
\* as an ascending sequence
SetToSeq(S) == SelectSeq([d \in 1 .. 9 |-> d], LAMBDA d : d \in S)

Range(s) == {s[i] : i \in 1 .. Len(s)}

RECURSIVE Flatten(_)
Flatten(ss) == IF ss = <<>> THEN <<>> ELSE Head(ss) \o Flatten(Tail(ss))

\* new Set([...a, ...b, ...c]) keeps first-insertion order: the sequence s
\* without its repeated later occurrences.
Dedupe(s) ==
  LET first == SelectSeq([i \in 1 .. Len(s) |-> i],
                         LAMBDA i : \A j \in 1 .. (i - 1) : s[j] # s[i])
  IN [k \in 1 .. Len(first) |-> s[first[k]]]

\* a table built at once (the comparison makes TLC enumerate the function
\* instead of keeping it as an unevaluated rule)
Materialize(f) == IF f = f THEN f ELSE f

\* the loop "for (let i = 0; i < 9; i++)" as the sequence of its indices
IdxSeq == [i \in 1 .. BOARD_SIZE |-> i - 1]

\* the cells of box (boxRow, boxCol) in the order of the nested r, c loops
BoxCells(boxRow, boxCol) ==
  [i \in 1 .. (BOX_SIZE * BOX_SIZE) |->
     <<boxRow * BOX_SIZE + ((i - 1) \div BOX_SIZE), boxCol * BOX_SIZE + ((i - 1) % BOX_SIZE)>>]

RowCells(row) == [i \in 1 .. BOARD_SIZE |-> <<row, i - 1>>]
ColCells(col) == [i \in 1 .. BOARD_SIZE |-> <<i - 1, col>>]

\* the pairs i < j and the triples i < j < k of 1..n in the order of the
\* nested for loops
PairsOf(n) ==
  Flatten([i \in 1 .. n |-> [d \in 1 .. (n - i) |-> <<i, i + d>>]])

TriplesOf(n) ==
  Flatten([i \in 1 .. n |->
    Flatten([d \in 1 .. (n - i) |-> [e \in 1 .. (n - i - d) |-> <<i, i + d, i + d + e>>]])])

\* the loop nests for every length an array of empty cells can have
AllPairs == Materialize([n \in 0 .. BOARD_SIZE |-> PairsOf(n)])
AllTriples == Materialize([n \in 0 .. BOARD_SIZE |-> TriplesOf(n)])

\* Fault variant of DeletedFrom: the entry is pushed whether or not delete()
\* removed anything
DeletedFromUnchecked(cs, cells, vals) ==
  Flatten([i \in 1 .. Len(cells) |->
    [j \in 1 .. Len(vals) |-> <<cells[i][1], cells[i][2], vals[j]>>]])

\* "for each listed cell, for each val: if (candidates.delete(val)) push
\* [r, c, val]": the entries pushed, in push order, and the grid afterwards
DeletedFrom(cs, cells, vals) ==
  Flatten([i \in 1 .. Len(cells) |->
    LET cell == cells[i]
        deleted == SelectSeq(vals, LAMBDA v : v \in cs[cell[1]][cell[2]])
    IN [j \in 1 .. Len(deleted) |-> <<cell[1], cell[2], deleted[j]>>]])



RowOf(k) == k \div BOARD_SIZE
ColOf(k) == k % BOARD_SIZE

\* fault: only the first listed cell loses the values
DeleteFromFirstCellOnly(cs, cells, vals) ==
  Materialize([r \in Idx |-> [c \in Idx |->
     IF cells # <<>> /\ <<r, c>> = <<cells[1][1], cells[1][2]>>
     THEN cs[r][c] \ Range(vals)
     ELSE cs[r][c]]])

DeleteFrom(cs, cells, vals) ==
  Materialize([r \in Idx |-> [c \in Idx |->
     IF <<r, c>> \in Range(cells) THEN cs[r][c] \ Range(vals) ELSE cs[r][c]]])

(***************************************************************************)
(* utils.ts                                                                *)
(***************************************************************************)
isComplete(b) == \A row \in Idx : \A col \in Idx : b[row][col] # 0

deepCloneBoard(b) == [row \in DOMAIN b |-> [col \in DOMAIN b[row] |-> b[row][col]]]

deepCloneCandidates(cs) ==
  [row \in DOMAIN cs |-> [col \in DOMAIN cs[row] |-> {d \in cs[row][col] : TRUE}]]

\* Fault variant of addSnapshot: board and candidates are pushed without
\* being cloned, so every entry shows the grids as they are now
addSnapshotByReference(game, meta) ==
  [game EXCEPT !.snapshots =
     Append([i \in 1 .. Len(@) |->
               [@[i] EXCEPT !.board = game.board, !.candidates = game.candidates]],
            [board |-> game.board, candidates |-> game.candidates] @@ meta)]

\* game.snapshots.push({board: clone, candidates: clone, kind, variant,
\* difficulty, highlight}); meta carries kind, difficulty and, when they are
\* defined, variant and highlight.
addSnapshot(game, meta) ==
  [game EXCEPT !.snapshots =
     Append(@, [board |-> deepCloneBoard(game.board),
                candidates |-> deepCloneCandidates(game.candidates)] @@ meta)]

(***************************************************************************)
(* SolverOptions: a record holding the flags the caller set; a flag the    *)
(* caller left out is absent.  opts?.flag === false / !== false.           *)
(***************************************************************************)
IsFalse(opts, flag) == flag \in DOMAIN opts /\ opts[flag] = FALSE
NotFalse(opts, flag) == ~IsFalse(opts, flag)

(***************************************************************************)
(* 1) Candidate building and basic elimination                             *)
(***************************************************************************)
\* Fault variant of eliminateFromPeers: the loop over the 3x3 box is missing
eliminateFromPeersNoBox(b, cs, row, col, digit) ==
  Materialize([r \in Idx |-> [c \in Idx |->
     IF b[r][c] = 0 /\ ((r = row /\ c # col) \/ (c = col /\ r # row))
     THEN cs[r][c] \ {digit}
     ELSE cs[r][c]]])

\* Fault variant of eliminateFromPeers: the loop over the column is missing
eliminateFromPeersNoColumn(b, cs, row, col, digit) ==
  LET startRow == row - (row % BOX_SIZE)
      startCol == col - (col % BOX_SIZE)
      InRowLoop(r, c) == r = row /\ c # col
      InBoxLoop(r, c) == /\ r \in startRow .. (startRow + BOX_SIZE - 1)
                         /\ c \in startCol .. (startCol + BOX_SIZE - 1)
                         /\ (r # row \/ c # col)
  IN Materialize([r \in Idx |-> [c \in Idx |->
        IF b[r][c] = 0 /\ (InRowLoop(r, c) \/ InBoxLoop(r, c))
        THEN cs[r][c] \ {digit}
        ELSE cs[r][c]]])

eliminateFromPeers(b, cs, row, col, digit) ==
  LET startRow == row - (row % BOX_SIZE)
      startCol == col - (col % BOX_SIZE)
      InRowLoop(r, c) == r = row /\ c # col
      InColLoop(r, c) == c = col /\ r # row
      InBoxLoop(r, c) == /\ r \in startRow .. (startRow + BOX_SIZE - 1)
                         /\ c \in startCol .. (startCol + BOX_SIZE - 1)
                         /\ (r # row \/ c # col)
  IN Materialize([r \in Idx |-> [c \in Idx |->
        IF b[r][c] = 0 /\ (InRowLoop(r, c) \/ InColLoop(r, c) \/ InBoxLoop(r, c))
        THEN cs[r][c] \ {digit}
        ELSE cs[r][c]]])

\* Fault variant of buildCandidatesRange: the set of a filled cell is not
\* replaced by the singleton of its digit
RECURSIVE buildCandidatesRangeNoCollapse(_, _, _, _)
buildCandidatesRangeNoCollapse(b, cs, lo, hi) ==
  IF hi - lo > 1
  THEN LET mid == (lo + hi) \div 2
           left == buildCandidatesRangeNoCollapse(b, cs, lo, mid)
       IN IF left = left THEN buildCandidatesRangeNoCollapse(b, left, mid, hi) ELSE left
  ELSE LET row == RowOf(lo)
           col == ColOf(lo)
           val == b[row][col]
       IN IF val # 0
          THEN eliminateFromPeers(b, cs, row, col, val)
          ELSE cs

\* A loop over the indices lo .. hi - 1 is unfolded by halving the range:
\* the first half runs, then the second half on what the first left, so the
\* iterations happen in the order of the source's loop.  Here k enumerates
\* (row, col) in loop order.
RECURSIVE buildCandidatesRange(_, _, _, _)
buildCandidatesRange(b, cs, lo, hi) ==
  IF hi - lo > 1
  THEN LET mid == (lo + hi) \div 2
           left == buildCandidatesRange(b, cs, lo, mid)
       IN IF left = left THEN buildCandidatesRange(b, left, mid, hi) ELSE left
  ELSE LET row == RowOf(lo)
           col == ColOf(lo)
           val == b[row][col]
       IN IF val # 0
          THEN eliminateFromPeers(b, [cs EXCEPT ![row][col] = {val}], row, col, val)
          ELSE cs

buildCandidates(b) ==
  buildCandidatesRange(b, Materialize([row \in Idx |-> [col \in Idx |-> Digits]]),
                       0, NumCells)

\* what a strategy call hands back: the game as it left it and its return value
Result(game, ret) == [game |-> game, ret |-> ret]

(***************************************************************************)
(* 2.1) Naked Singles                                                      *)
(***************************************************************************)
\* Fault variant of nakedSinglesScan: the scan ends at its first placement
RECURSIVE nakedSinglesScanFirstHit(_, _, _)
nakedSinglesScanFirstHit(game, lo, hi) ==
  IF hi - lo > 1
  THEN LET mid == (lo + hi) \div 2
           left == nakedSinglesScanFirstHit(game, lo, mid)
       IN IF left.ret THEN left ELSE nakedSinglesScanFirstHit(left.game, mid, hi)
  ELSE LET row == RowOf(lo)
           col == ColOf(lo)
       IN IF game.board[row][col] = 0 /\ Cardinality(game.candidates[row][col]) = 1
          THEN LET digit == SetToSeq(game.candidates[row][col])[1]
                   b2 == [game.board EXCEPT ![row][col] = digit]
                   c2 == eliminateFromPeers(b2, game.candidates, row, col, digit)
               IN Result(addSnapshot(
                           [game EXCEPT !.board = b2, !.candidates = c2],
                           [kind |-> "Naked Single", variant |-> ToString(digit),
                            difficulty |-> 1,
                            highlight |-> [blocks |-> << <<row, col>> >>]]),
                         TRUE)
          ELSE Result(game, FALSE)

\* A scan that goes on after a hit: the second half of the range runs on
\* the game the first half left, and "changed" is true when either half set
\* it.  k enumerates (row, col) in loop order.
RECURSIVE nakedSinglesScan(_, _, _)
nakedSinglesScan(game, lo, hi) ==
  IF hi - lo > 1
  THEN LET mid == (lo + hi) \div 2
           left == nakedSinglesScan(game, lo, mid)
           right == nakedSinglesScan(left.game, mid, hi)
       IN IF left.ret THEN Result(right.game, TRUE) ELSE right
  ELSE LET row == RowOf(lo)
           col == ColOf(lo)
       IN IF game.board[row][col] = 0 /\ Cardinality(game.candidates[row][col]) = 1
          THEN LET digit == SetToSeq(game.candidates[row][col])[1]
                   b2 == [game.board EXCEPT ![row][col] = digit]
                   c2 == eliminateFromPeers(b2, game.candidates, row, col, digit)
               IN Result(addSnapshot(
                           [game EXCEPT !.board = b2, !.candidates = c2],
                           [kind |-> "Naked Single", variant |-> ToString(digit),
                            difficulty |-> 1,
                            highlight |-> [blocks |-> << <<row, col>> >>]]),
                         TRUE)
          ELSE Result(game, FALSE)

\* Fault variant of applyNakedSingles: the scan places its singles but the
\* call reports no change
applyNakedSinglesReportsNothing(game, opts) ==
  IF IsFalse(opts, "nakedSingles") THEN Result(game, FALSE)
  ELSE Result(nakedSinglesScan(game, 0, NumCells).game, FALSE)

applyNakedSingles(game, opts) ==
  IF IsFalse(opts, "nakedSingles") THEN Result(game, FALSE)
  ELSE nakedSinglesScan(game, 0, NumCells)

(***************************************************************************)
(* 2.2) Hidden Singles                                                     *)
(***************************************************************************)
isDigitInRow(b, row, digit) == \E col \in Idx : b[row][col] = digit

isDigitInCol(b, col, digit) == \E row \in Idx : b[row][col] = digit

isDigitInBox(b, boxRow, boxCol, digit) ==
  \E r \in BoxIdx : \E c \in BoxIdx :
     b[boxRow * BOX_SIZE + r][boxCol * BOX_SIZE + c] = digit

\* Fault variant of PlaceHiddenSingle: the digit is written to board[col][row]
PlaceHiddenSingleTransposed(game, row, col, digit, variant, highlight) ==
  LET b2 == [game.board EXCEPT ![col][row] = digit]
      c2 == eliminateFromPeers(b2, game.candidates, row, col, digit)
  IN addSnapshot([game EXCEPT !.board = b2, !.candidates = c2],
                 [kind |-> "Hidden Single", variant |-> variant, difficulty |-> 3,
                  highlight |-> highlight])

\* Fault variant of PlaceHiddenSingle: the snapshot is taken before the peers
\* are cleared
PlaceHiddenSingleSnapshotFirst(game, row, col, digit, variant, highlight) ==
  LET b2 == [game.board EXCEPT ![row][col] = digit]
      c2 == eliminateFromPeers(b2, game.candidates, row, col, digit)
      snapped == addSnapshot([game EXCEPT !.board = b2],
                             [kind |-> "Hidden Single", variant |-> variant,
                              difficulty |-> 3, highlight |-> highlight])
  IN [snapped EXCEPT !.candidates = c2]

\* game.board[row][col] = digit; eliminateFromPeers(...); addSnapshot(...)
PlaceHiddenSingle(game, row, col, digit, variant, highlight) ==
  LET b2 == [game.board EXCEPT ![row][col] = digit]
      c2 == eliminateFromPeers(b2, game.candidates, row, col, digit)
  IN addSnapshot([game EXCEPT !.board = b2, !.candidates = c2],
                 [kind |-> "Hidden Single", variant |-> variant, difficulty |-> 3,
                  highlight |-> highlight])

\* k enumerates (row, digit) in loop order: row = k div 9, digit = k mod 9 + 1
RECURSIVE hiddenSinglesInRowsRange(_, _, _)
hiddenSinglesInRowsRange(game, lo, hi) ==
  IF hi - lo > 1
  THEN LET mid == (lo + hi) \div 2
           left == hiddenSinglesInRowsRange(game, lo, mid)
       IN IF left.ret THEN left ELSE hiddenSinglesInRowsRange(left.game, mid, hi)
  ELSE LET k == lo
           row == k \div 9
           digit == (k % 9) + 1
           possibleCols ==
             SelectSeq(IdxSeq, LAMBDA col :
               game.board[row][col] = 0 /\ digit \in game.candidates[row][col])
       IN IF isDigitInRow(game.board, row, digit)
          THEN Result(game, FALSE)
          ELSE IF Len(possibleCols) = 1
          THEN LET col == possibleCols[1]
               IN Result(PlaceHiddenSingle(game, row, col, digit, "Row",
                           [rows |-> <<row>>, blocks |-> << <<row, col>> >>]), TRUE)
          ELSE Result(game, FALSE)

applyHiddenSinglesInRows(game) == hiddenSinglesInRowsRange(game, 0, BOARD_SIZE * 9)

RECURSIVE hiddenSinglesInColumnsRange(_, _, _)
hiddenSinglesInColumnsRange(game, lo, hi) ==
  IF hi - lo > 1
  THEN LET mid == (lo + hi) \div 2
           left == hiddenSinglesInColumnsRange(game, lo, mid)
       IN IF left.ret THEN left ELSE hiddenSinglesInColumnsRange(left.game, mid, hi)
  ELSE LET k == lo
           col == k \div 9
           digit == (k % 9) + 1
           possibleRows ==
             SelectSeq(IdxSeq, LAMBDA row :
               game.board[row][col] = 0 /\ digit \in game.candidates[row][col])
       IN IF isDigitInCol(game.board, col, digit)
          THEN Result(game, FALSE)
          ELSE IF Len(possibleRows) = 1
          THEN LET row == possibleRows[1]
               IN Result(PlaceHiddenSingle(game, row, col, digit, "Column",
                           [cols |-> <<col>>, blocks |-> << <<row, col>> >>]), TRUE)
          ELSE Result(game, FALSE)

applyHiddenSinglesInColumns(game) == hiddenSinglesInColumnsRange(game, 0, BOARD_SIZE * 9)

\* Fault variant of hiddenSinglesInBoxesRange: the empty cells of the box are
\* counted without asking whether the digit is among their candidates
RECURSIVE hiddenSinglesInBoxesRangeAnyEmptyCell(_, _, _)
hiddenSinglesInBoxesRangeAnyEmptyCell(game, lo, hi) ==
  IF hi - lo > 1
  THEN LET mid == (lo + hi) \div 2
           left == hiddenSinglesInBoxesRangeAnyEmptyCell(game, lo, mid)
       IN IF left.ret THEN left ELSE hiddenSinglesInBoxesRangeAnyEmptyCell(left.game, mid, hi)
  ELSE LET k == lo
           boxRow == k \div 27
           boxCol == (k \div 9) % 3
           digit == (k % 9) + 1
           possibleCells ==
             SelectSeq(BoxCells(boxRow, boxCol), LAMBDA cell :
               game.board[cell[1]][cell[2]] = 0)
       IN IF isDigitInBox(game.board, boxRow, boxCol, digit)
          THEN Result(game, FALSE)
          ELSE IF Len(possibleCells) = 1
          THEN LET r == possibleCells[1][1]
                   c == possibleCells[1][2]
               IN Result(PlaceHiddenSingle(game, r, c, digit, "Box",
                           [boxes |-> << <<boxRow, boxCol>> >>, blocks |-> << <<r, c>> >>]),
                         TRUE)
          ELSE Result(game, FALSE)

\* k enumerates (boxRow, boxCol, digit) in loop order
RECURSIVE hiddenSinglesInBoxesRange(_, _, _)
hiddenSinglesInBoxesRange(game, lo, hi) ==
  IF hi - lo > 1
  THEN LET mid == (lo + hi) \div 2
           left == hiddenSinglesInBoxesRange(game, lo, mid)
       IN IF left.ret THEN left ELSE hiddenSinglesInBoxesRange(left.game, mid, hi)
  ELSE LET k == lo
           boxRow == k \div 27
           boxCol == (k \div 9) % 3
           digit == (k % 9) + 1
           possibleCells ==
             SelectSeq(BoxCells(boxRow, boxCol), LAMBDA cell :
               game.board[cell[1]][cell[2]] = 0 /\ digit \in game.candidates[cell[1]][cell[2]])
       IN IF isDigitInBox(game.board, boxRow, boxCol, digit)
          THEN Result(game, FALSE)
          ELSE IF Len(possibleCells) = 1
          THEN LET r == possibleCells[1][1]
                   c == possibleCells[1][2]
               IN Result(PlaceHiddenSingle(game, r, c, digit, "Box",
                           [boxes |-> << <<boxRow, boxCol>> >>, blocks |-> << <<r, c>> >>]),
                         TRUE)
          ELSE Result(game, FALSE)

applyHiddenSinglesInBoxes(game) == hiddenSinglesInBoxesRange(game, 0, 3 * 3 * 9)

\* Fault variant of applyHiddenSingles: rows are searched before boxes
applyHiddenSinglesRowsFirst(game, opts) ==
  IF IsFalse(opts, "hiddenSingles") THEN Result(game, FALSE)
  ELSE LET Boxes(g) == IF NotFalse(opts, "hiddenSinglesBoxes") THEN applyHiddenSinglesInBoxes(g) ELSE Result(g, FALSE)
           Rows(g) == IF NotFalse(opts, "hiddenSinglesRows") THEN applyHiddenSinglesInRows(g) ELSE Result(g, FALSE)
           Cols(g) == IF NotFalse(opts, "hiddenSinglesCols") THEN applyHiddenSinglesInColumns(g) ELSE Result(g, FALSE)
           AfterBoxes(res) == IF res.ret THEN res ELSE Cols(res.game)
           AfterRows(res) == IF res.ret THEN res ELSE AfterBoxes(Boxes(res.game))
       IN AfterRows(Rows(game))

applyHiddenSingles(game, opts) ==
  IF IsFalse(opts, "hiddenSingles") THEN Result(game, FALSE)
  ELSE LET Boxes(g) == IF NotFalse(opts, "hiddenSinglesBoxes") THEN applyHiddenSinglesInBoxes(g) ELSE Result(g, FALSE)
           Rows(g) == IF NotFalse(opts, "hiddenSinglesRows") THEN applyHiddenSinglesInRows(g) ELSE Result(g, FALSE)
           Cols(g) == IF NotFalse(opts, "hiddenSinglesCols") THEN applyHiddenSinglesInColumns(g) ELSE Result(g, FALSE)
           AfterRows(res) == IF res.ret THEN res ELSE Cols(res.game)
           AfterBoxes(res) == IF res.ret THEN res ELSE AfterRows(Rows(res.game))
       IN AfterBoxes(Boxes(game))

(***************************************************************************)
(* 2.3) Naked Pairs                                                        *)
(***************************************************************************)
\* fault: two sets of the same size pass for equal
areSetsEqualBySize(a, b) == Cardinality(a) = Cardinality(b)

areSetsEqual(a, b) ==
  IF Cardinality(a) # Cardinality(b) THEN FALSE ELSE \A x \in a : x \in b

\* Fault variant of nakedPairsInUnitRange: the second cell of the pair is not
\* spared when the pair's digits are removed from the unit
RECURSIVE nakedPairsInUnitRangeSecondCell(_, _, _, _, _, _, _)
nakedPairsInUnitRangeSecondCell(game, unitCells, empties, lo, hi, variant, unitHighlight) ==
  IF hi - lo > 1
  THEN LET mid == (lo + hi) \div 2
           left == nakedPairsInUnitRangeSecondCell(game, unitCells, empties, lo, mid,
                                         variant, unitHighlight)
       IN IF left.ret THEN left
          ELSE nakedPairsInUnitRangeSecondCell(left.game, unitCells, empties, mid, hi,
                                     variant, unitHighlight)
  ELSE IF hi <= lo THEN Result(game, FALSE)
  ELSE LET ij == AllPairs[Len(empties)][lo]
           cell1 == empties[ij[1]]
           cell2 == empties[ij[2]]
           cands1 == game.candidates[cell1[1]][cell1[2]]
           cands2 == game.candidates[cell2[1]][cell2[2]]
           pairValues == SetToSeq(cands1)
           others == SelectSeq(unitCells, LAMBDA cell :
                       cell # cell1 /\ game.board[cell[1]][cell[2]] = 0)
           removedCandidates == DeletedFrom(game.candidates, others, pairValues)
       IN IF Cardinality(cands1) = 2 /\ Cardinality(cands2) = 2 /\ areSetsEqual(cands1, cands2)
             /\ Len(removedCandidates) > 0
          THEN Result(
                 addSnapshot(
                   [game EXCEPT !.candidates = DeleteFrom(@, others, pairValues)],
                   [kind |-> "Naked Pair", variant |-> variant, difficulty |-> 2,
                    highlight |->
                      unitHighlight @@
                      [blocks |-> <<cell1, cell2>>,
                       candidates |-> << <<cell1[1], cell1[2], pairValues[1]>>,
                                         <<cell1[1], cell1[2], pairValues[2]>>,
                                         <<cell2[1], cell2[2], pairValues[1]>>,
                                         <<cell2[1], cell2[2], pairValues[2]>> >>,
                       removedCandidates |-> removedCandidates]]),
                 TRUE)
          ELSE Result(game, FALSE)

\* Fault variant of nakedPairsInUnitRange: two cells are a pair when the union
\* of their candidate sets has two digits
RECURSIVE nakedPairsInUnitRangeByUnion(_, _, _, _, _, _, _)
nakedPairsInUnitRangeByUnion(game, unitCells, empties, lo, hi, variant, unitHighlight) ==
  IF hi - lo > 1
  THEN LET mid == (lo + hi) \div 2
           left == nakedPairsInUnitRangeByUnion(game, unitCells, empties, lo, mid,
                                         variant, unitHighlight)
       IN IF left.ret THEN left
          ELSE nakedPairsInUnitRangeByUnion(left.game, unitCells, empties, mid, hi,
                                     variant, unitHighlight)
  ELSE IF hi <= lo THEN Result(game, FALSE)
  ELSE LET ij == AllPairs[Len(empties)][lo]
           cell1 == empties[ij[1]]
           cell2 == empties[ij[2]]
           cands1 == game.candidates[cell1[1]][cell1[2]]
           cands2 == game.candidates[cell2[1]][cell2[2]]
           pairValues == SetToSeq(cands1 \cup cands2)
           others == SelectSeq(unitCells, LAMBDA cell :
                       cell # cell1 /\ cell # cell2 /\ game.board[cell[1]][cell[2]] = 0)
           removedCandidates == DeletedFrom(game.candidates, others, pairValues)
       IN IF Cardinality(cands1 \cup cands2) = 2
             /\ Len(removedCandidates) > 0
          THEN Result(
                 addSnapshot(
                   [game EXCEPT !.candidates = DeleteFrom(@, others, pairValues)],
                   [kind |-> "Naked Pair", variant |-> variant, difficulty |-> 2,
                    highlight |->
                      unitHighlight @@
                      [blocks |-> <<cell1, cell2>>,
                       candidates |-> << <<cell1[1], cell1[2], pairValues[1]>>,
                                         <<cell1[1], cell1[2], pairValues[2]>>,
                                         <<cell2[1], cell2[2], pairValues[1]>>,
                                         <<cell2[1], cell2[2], pairValues[2]>> >>,
                       removedCandidates |-> removedCandidates]]),
                 TRUE)
          ELSE Result(game, FALSE)

\* The body shared by applyNakedPairsInRow / InCol / InBox: unitCells are the
\* unit's cells in loop order, empties its empty cells, p indexes the pairs
\* (i, j) of empties in loop order.  The first pair of 2-candidate cells
\* with equal sets whose digits can be removed elsewhere in the unit ends
\* the call with one snapshot.
RECURSIVE nakedPairsInUnitRange(_, _, _, _, _, _, _)
nakedPairsInUnitRange(game, unitCells, empties, lo, hi, variant, unitHighlight) ==
  IF hi - lo > 1
  THEN LET mid == (lo + hi) \div 2
           left == nakedPairsInUnitRange(game, unitCells, empties, lo, mid,
                                         variant, unitHighlight)
       IN IF left.ret THEN left
          ELSE nakedPairsInUnitRange(left.game, unitCells, empties, mid, hi,
                                     variant, unitHighlight)
  ELSE IF hi <= lo THEN Result(game, FALSE)
  ELSE LET ij == AllPairs[Len(empties)][lo]
           cell1 == empties[ij[1]]
           cell2 == empties[ij[2]]
           cands1 == game.candidates[cell1[1]][cell1[2]]
           cands2 == game.candidates[cell2[1]][cell2[2]]
           pairValues == SetToSeq(cands1)
           others == SelectSeq(unitCells, LAMBDA cell :
                       cell # cell1 /\ cell # cell2 /\ game.board[cell[1]][cell[2]] = 0)
           removedCandidates == DeletedFrom(game.candidates, others, pairValues)
       IN IF Cardinality(cands1) = 2 /\ Cardinality(cands2) = 2 /\ areSetsEqual(cands1, cands2)
             /\ Len(removedCandidates) > 0
          THEN Result(
                 addSnapshot(
                   [game EXCEPT !.candidates = DeleteFrom(@, others, pairValues)],
                   [kind |-> "Naked Pair", variant |-> variant, difficulty |-> 2,
                    highlight |->
                      unitHighlight @@
                      [blocks |-> <<cell1, cell2>>,
                       candidates |-> << <<cell1[1], cell1[2], pairValues[1]>>,
                                         <<cell1[1], cell1[2], pairValues[2]>>,
                                         <<cell2[1], cell2[2], pairValues[1]>>,
                                         <<cell2[1], cell2[2], pairValues[2]>> >>,
                       removedCandidates |-> removedCandidates]]),
                 TRUE)
          ELSE Result(game, FALSE)

\* the index range of the pairs, and of the triples, of n array entries
PairRangeEnd(n) == Len(AllPairs[n]) + 1
TripleRangeEnd(n) == Len(AllTriples[n]) + 1

EmptyCells(game, cells) == SelectSeq(cells, LAMBDA cell : game.board[cell[1]][cell[2]] = 0)

applyNakedPairsInRow(game, row) ==
  nakedPairsInUnitRange(game, RowCells(row), EmptyCells(game, RowCells(row)),
                        1, PairRangeEnd(Len(EmptyCells(game, RowCells(row)))),
                       "Row", [rows |-> <<row>>])

applyNakedPairsInCol(game, col) ==
  nakedPairsInUnitRange(game, ColCells(col), EmptyCells(game, ColCells(col)),
                        1, PairRangeEnd(Len(EmptyCells(game, ColCells(col)))),
                       "Column", [cols |-> <<col>>])

applyNakedPairsInBox(game, boxRow, boxCol) ==
  nakedPairsInUnitRange(game, BoxCells(boxRow, boxCol),
                        EmptyCells(game, BoxCells(boxRow, boxCol)),
                        1, PairRangeEnd(Len(EmptyCells(game, BoxCells(boxRow, boxCol)))),
                       "Box", [boxes |-> << <<boxRow, boxCol>> >>])

RECURSIVE nakedPairsRowsFrom(_, _)
nakedPairsRowsFrom(game, r) ==
  IF r = BOARD_SIZE THEN Result(game, FALSE)
  ELSE LET Continue(res) == IF res.ret THEN res ELSE nakedPairsRowsFrom(res.game, r + 1)
       IN Continue(applyNakedPairsInRow(game, r))

RECURSIVE nakedPairsColsFrom(_, _)
nakedPairsColsFrom(game, c) ==
  IF c = BOARD_SIZE THEN Result(game, FALSE)
  ELSE LET Continue(res) == IF res.ret THEN res ELSE nakedPairsColsFrom(res.game, c + 1)
       IN Continue(applyNakedPairsInCol(game, c))

\* k enumerates (br, bc) in loop order
RECURSIVE nakedPairsBoxesFrom(_, _)
nakedPairsBoxesFrom(game, k) ==
  IF k = 3 * 3 THEN Result(game, FALSE)
  ELSE LET Continue(res) == IF res.ret THEN res ELSE nakedPairsBoxesFrom(res.game, k + 1)
       IN Continue(applyNakedPairsInBox(game, k \div 3, k % 3))

\* Fault variant of applyNakedPairs: the scan goes on after the first unit
\* in which a pair removed a candidate
applyNakedPairsKeepsScanning(game, opts) ==
  IF IsFalse(opts, "nakedPairs") THEN Result(game, FALSE)
  ELSE LET Rows(g) == IF NotFalse(opts, "nakedPairsRows") THEN nakedPairsRowsFrom(g, 0) ELSE Result(g, FALSE)
           Cols(g) == IF NotFalse(opts, "nakedPairsCols") THEN nakedPairsColsFrom(g, 0) ELSE Result(g, FALSE)
           Boxes(g) == IF NotFalse(opts, "nakedPairsBoxes") THEN nakedPairsBoxesFrom(g, 0) ELSE Result(g, FALSE)
           Join(first, rest) == Result(rest.game, first.ret \/ rest.ret)
           AfterCols(res) == Join(res, Boxes(res.game))
           AfterRows(res) == Join(res, AfterCols(Cols(res.game)))
       IN AfterRows(Rows(game))

\* Fault variant of applyNakedPairs: the column pass is not gated by
\* nakedPairsCols
applyNakedPairsColsUngated(game, opts) ==
  IF IsFalse(opts, "nakedPairs") THEN Result(game, FALSE)
  ELSE LET Rows(g) == IF NotFalse(opts, "nakedPairsRows") THEN nakedPairsRowsFrom(g, 0) ELSE Result(g, FALSE)
           Cols(g) == nakedPairsColsFrom(g, 0)
           Boxes(g) == IF NotFalse(opts, "nakedPairsBoxes") THEN nakedPairsBoxesFrom(g, 0) ELSE Result(g, FALSE)
           AfterCols(res) == IF res.ret THEN res ELSE Boxes(res.game)
           AfterRows(res) == IF res.ret THEN res ELSE AfterCols(Cols(res.game))
       IN AfterRows(Rows(game))

applyNakedPairs(game, opts) ==
  IF IsFalse(opts, "nakedPairs") THEN Result(game, FALSE)
  ELSE LET Rows(g) == IF NotFalse(opts, "nakedPairsRows") THEN nakedPairsRowsFrom(g, 0) ELSE Result(g, FALSE)
           Cols(g) == IF NotFalse(opts, "nakedPairsCols") THEN nakedPairsColsFrom(g, 0) ELSE Result(g, FALSE)
           Boxes(g) == IF NotFalse(opts, "nakedPairsBoxes") THEN nakedPairsBoxesFrom(g, 0) ELSE Result(g, FALSE)
           AfterCols(res) == IF res.ret THEN res ELSE Boxes(res.game)
           AfterRows(res) == IF res.ret THEN res ELSE AfterCols(Cols(res.game))
       IN AfterRows(Rows(game))

(***************************************************************************)
(* Naked Triples (nakedTriples.ts)                                         *)
(***************************************************************************)
isSubset(setA, setB) == \A x \in setA : x \in setB

\* Fault variant of nakedTriplesInUnitRange: the scan of the unit stops at the
\* first triple that removes a candidate
RECURSIVE nakedTriplesInUnitRangeFirstHit(_, _, _, _, _, _, _)
nakedTriplesInUnitRangeFirstHit(game, unitCells, empties, lo, hi, variant, unitHighlight) ==
  IF hi - lo > 1
  THEN LET mid == (lo + hi) \div 2
           left == nakedTriplesInUnitRangeFirstHit(game, unitCells, empties, lo, mid,
                                           variant, unitHighlight)
           right == nakedTriplesInUnitRangeFirstHit(left.game, unitCells, empties, mid, hi,
                                                    variant, unitHighlight)
       IN IF left.ret THEN left ELSE right
  ELSE IF hi <= lo THEN Result(game, FALSE)
  ELSE LET ijk == AllTriples[Len(empties)][lo]
           cell1 == empties[ijk[1]]
           cell2 == empties[ijk[2]]
           cell3 == empties[ijk[3]]
           cands1 == game.candidates[cell1[1]][cell1[2]]
           cands2 == game.candidates[cell2[1]][cell2[2]]
           cands3 == game.candidates[cell3[1]][cell3[2]]
           union == Dedupe(SetToSeq(cands1) \o SetToSeq(cands2) \o SetToSeq(cands3))
           tripleValues == union
           others == SelectSeq(unitCells, LAMBDA cell :
                       cell # cell1 /\ cell # cell2 /\ cell # cell3
                       /\ game.board[cell[1]][cell[2]] = 0)
           removedCandidates == DeletedFrom(game.candidates, others, tripleValues)
           CandsOf(cell, cands) ==
             [i \in 1 .. Cardinality(cands) |-> <<cell[1], cell[2], SetToSeq(cands)[i]>>]
           after == [game EXCEPT !.candidates = DeleteFrom(@, others, tripleValues)]
       IN IF /\ Len(union) = 3
             /\ isSubset(cands1, Range(union))
             /\ isSubset(cands2, Range(union))
             /\ isSubset(cands3, Range(union))
          THEN IF Len(removedCandidates) > 0
               THEN Result(
                      addSnapshot(after,
                        [kind |-> "Naked Triple", variant |-> variant, difficulty |-> 4,
                         highlight |->
                           unitHighlight @@
                           [blocks |-> <<cell1, cell2, cell3>>,
                            candidates |-> CandsOf(cell1, cands1) \o CandsOf(cell2, cands2)
                                             \o CandsOf(cell3, cands3),
                            removedCandidates |-> removedCandidates]]),
                      TRUE)
               ELSE Result(game, FALSE)
          ELSE Result(game, FALSE)

\* The body shared by applyNakedTriplesInRow / InColumn / InBox.  Every
\* combination of three empty cells is examined, on the grid as the earlier
\* combinations of the same call left it; each combination that removes a
\* candidate appends a snapshot, and the call returns whether any did.
RECURSIVE nakedTriplesInUnitRange(_, _, _, _, _, _, _)
nakedTriplesInUnitRange(game, unitCells, empties, lo, hi, variant, unitHighlight) ==
  IF hi - lo > 1
  THEN LET mid == (lo + hi) \div 2
           left == nakedTriplesInUnitRange(game, unitCells, empties, lo, mid,
                                           variant, unitHighlight)
           right == nakedTriplesInUnitRange(left.game, unitCells, empties, mid, hi,
                                            variant, unitHighlight)
       IN IF left.ret THEN Result(right.game, TRUE) ELSE right
  ELSE IF hi <= lo THEN Result(game, FALSE)
  ELSE LET ijk == AllTriples[Len(empties)][lo]
           cell1 == empties[ijk[1]]
           cell2 == empties[ijk[2]]
           cell3 == empties[ijk[3]]
           cands1 == game.candidates[cell1[1]][cell1[2]]
           cands2 == game.candidates[cell2[1]][cell2[2]]
           cands3 == game.candidates[cell3[1]][cell3[2]]
           union == Dedupe(SetToSeq(cands1) \o SetToSeq(cands2) \o SetToSeq(cands3))
           tripleValues == union
           others == SelectSeq(unitCells, LAMBDA cell :
                       cell # cell1 /\ cell # cell2 /\ cell # cell3
                       /\ game.board[cell[1]][cell[2]] = 0)
           removedCandidates == DeletedFrom(game.candidates, others, tripleValues)
           CandsOf(cell, cands) ==
             [i \in 1 .. Cardinality(cands) |-> <<cell[1], cell[2], SetToSeq(cands)[i]>>]
           after == [game EXCEPT !.candidates = DeleteFrom(@, others, tripleValues)]
       IN IF /\ Len(union) = 3
             /\ isSubset(cands1, Range(union))
             /\ isSubset(cands2, Range(union))
             /\ isSubset(cands3, Range(union))
          THEN IF Len(removedCandidates) > 0
               THEN Result(
                      addSnapshot(after,
                        [kind |-> "Naked Triple", variant |-> variant, difficulty |-> 4,
                         highlight |->
                           unitHighlight @@
                           [blocks |-> <<cell1, cell2, cell3>>,
                            candidates |-> CandsOf(cell1, cands1) \o CandsOf(cell2, cands2)
                                             \o CandsOf(cell3, cands3),
                            removedCandidates |-> removedCandidates]]),
                      TRUE)
               ELSE Result(game, FALSE)
          ELSE Result(game, FALSE)

applyNakedTriplesInRow(game, row) ==
  nakedTriplesInUnitRange(game, RowCells(row), EmptyCells(game, RowCells(row)),
                          1, TripleRangeEnd(Len(EmptyCells(game, RowCells(row)))),
                         "Row", [rows |-> <<row>>])

applyNakedTriplesInColumn(game, col) ==
  nakedTriplesInUnitRange(game, ColCells(col), EmptyCells(game, ColCells(col)),
                          1, TripleRangeEnd(Len(EmptyCells(game, ColCells(col)))),
                         "Column", [cols |-> <<col>>])

applyNakedTriplesInBox(game, boxRow, boxCol) ==
  nakedTriplesInUnitRange(game, BoxCells(boxRow, boxCol),
                          EmptyCells(game, BoxCells(boxRow, boxCol)),
                          1, TripleRangeEnd(Len(EmptyCells(game, BoxCells(boxRow, boxCol)))),
                         "Box", [boxes |-> << <<boxRow, boxCol>> >>])

RECURSIVE nakedTriplesRowsFrom(_, _)
nakedTriplesRowsFrom(game, r) ==
  IF r = 9 THEN Result(game, FALSE)
  ELSE LET Continue(res) == IF res.ret THEN res ELSE nakedTriplesRowsFrom(res.game, r + 1)
       IN Continue(applyNakedTriplesInRow(game, r))

RECURSIVE nakedTriplesColsFrom(_, _)
nakedTriplesColsFrom(game, c) ==
  IF c = 9 THEN Result(game, FALSE)
  ELSE LET Continue(res) == IF res.ret THEN res ELSE nakedTriplesColsFrom(res.game, c + 1)
       IN Continue(applyNakedTriplesInColumn(game, c))

RECURSIVE nakedTriplesBoxesFrom(_, _)
nakedTriplesBoxesFrom(game, k) ==
  IF k = 3 * 3 THEN Result(game, FALSE)
  ELSE LET Continue(res) == IF res.ret THEN res ELSE nakedTriplesBoxesFrom(res.game, k + 1)
       IN Continue(applyNakedTriplesInBox(game, k \div 3, k % 3))

applyNakedTriples(game, opts) ==
  IF IsFalse(opts, "nakedTriples") THEN Result(game, FALSE)
  ELSE LET Rows(g) == IF NotFalse(opts, "nakedTriplesRows") THEN nakedTriplesRowsFrom(g, 0) ELSE Result(g, FALSE)
           Cols(g) == IF NotFalse(opts, "nakedTriplesCols") THEN nakedTriplesColsFrom(g, 0) ELSE Result(g, FALSE)
           Boxes(g) == IF NotFalse(opts, "nakedTriplesBoxes") THEN nakedTriplesBoxesFrom(g, 0) ELSE Result(g, FALSE)
           AfterCols(res) == IF res.ret THEN res ELSE Boxes(res.game)
           AfterRows(res) == IF res.ret THEN res ELSE AfterCols(Cols(res.game))
       IN AfterRows(Rows(game))

(***************************************************************************)
(* Hidden Pairs (hiddenPairs.ts)                                           *)
(***************************************************************************)
arrayEquals(a, b) ==
  IF Len(a) # Len(b) THEN FALSE ELSE \A i \in 1 .. Len(a) : a[i] = b[i]

\* a.slice().sort((p1, p2) => p1[0] - p2[0] || p1[1] - p2[1])
CoordBefore(p1, p2) == p1[1] < p2[1] \/ (p1[1] = p2[1] /\ p1[2] < p2[2])

RECURSIVE SortCoords(_)
SortCoords(a) ==
  IF a = <<>> THEN <<>>
  ELSE LET rest == SortCoords(Tail(a))
           h == Head(a)
           before == SelectSeq(rest, LAMBDA q : CoordBefore(q, h))
           after == SelectSeq(rest, LAMBDA q : ~CoordBefore(q, h))
       IN before \o <<h>> \o after

coordsEquals(a, b) ==
  IF Len(a) # Len(b) THEN FALSE
  ELSE \A i \in 1 .. Len(a) :
         /\ SortCoords(a)[i][1] = SortCoords(b)[i][1]
         /\ SortCoords(a)[i][2] = SortCoords(b)[i][2]

\* returns the grid after the deletions, the removedCandidates array after
\* the pushes and the function's return value
\* Fault variant of stripOtherCandidates: the cell is assigned the allowed
\* digits instead of having the others deleted
stripOtherCandidatesAssign(cs, row, col, allowed, removedCandidates) ==
  LET toRemove == SelectSeq(SetToSeq(cs[row][col]), LAMBDA digit : digit \notin Range(allowed))
  IN [candidates |-> [cs EXCEPT ![row][col] = Range(allowed)],
      removedCandidates |->
        removedCandidates \o [i \in 1 .. Len(toRemove) |-> <<row, col, toRemove[i]>>],
      ret |-> Len(toRemove) > 0]

\* Fault variant of stripOtherCandidates: only the first allowed digit is
\* spared
stripOtherCandidatesKeepsFirst(cs, row, col, allowed, removedCandidates) ==
  LET toRemove == SelectSeq(SetToSeq(cs[row][col]), LAMBDA digit : digit # allowed[1])
  IN [candidates |-> [cs EXCEPT ![row][col] = @ \ Range(toRemove)],
      removedCandidates |->
        removedCandidates \o [i \in 1 .. Len(toRemove) |-> <<row, col, toRemove[i]>>],
      ret |-> Len(toRemove) > 0]

\* Fault variant of stripOtherCandidates: it returns true whether or not a
\* candidate was deleted
stripOtherCandidatesReturnsTrue(cs, row, col, allowed, removedCandidates) ==
  LET toRemove == SelectSeq(SetToSeq(cs[row][col]), LAMBDA digit : digit \notin Range(allowed))
  IN [candidates |-> [cs EXCEPT ![row][col] = @ \ Range(toRemove)],
      removedCandidates |->
        removedCandidates \o [i \in 1 .. Len(toRemove) |-> <<row, col, toRemove[i]>>],
      ret |-> TRUE]

stripOtherCandidates(cs, row, col, allowed, removedCandidates) ==
  LET toRemove == SelectSeq(SetToSeq(cs[row][col]), LAMBDA digit : digit \notin Range(allowed))
  IN [candidates |-> [cs EXCEPT ![row][col] = @ \ Range(toRemove)],
      removedCandidates |->
        removedCandidates \o [i \in 1 .. Len(toRemove) |-> <<row, col, toRemove[i]>>],
      ret |-> Len(toRemove) > 0]

\* the positionsForDigit table: for each digit the empty cells of the unit,
\* in loop order, that have it as a candidate when the call starts
PositionsForDigit(game, empties) ==
  Materialize(
    [d \in 0 .. 9 |-> SelectSeq(empties, LAMBDA cell : d \in game.candidates[cell[1]][cell[2]])])

\* The loop over d1 < d2 shared by applyHiddenPairsInRow / InColumn / InBox;
\* p indexes the pairs (d1, d2) in loop order, positions is the table built
\* when the call started.  The row and column functions compare the two
\* position lists with arrayEquals, the box function with
\* coords2.length === 2 && coordsEquals.
RECURSIVE hiddenPairsInUnitRange(_, _, _, _, _, _)
hiddenPairsInUnitRange(game, positions, lo, hi, variant, unitHighlight) ==
  IF hi - lo > 1
  THEN LET mid == (lo + hi) \div 2
           left == hiddenPairsInUnitRange(game, positions, lo, mid, variant, unitHighlight)
           right == hiddenPairsInUnitRange(left.game, positions, mid, hi, variant,
                                           unitHighlight)
       IN IF left.ret THEN Result(right.game, TRUE) ELSE right
  ELSE LET d1 == AllPairs[9][lo][1]
           d2 == AllPairs[9][lo][2]
           cells1 == positions[d1]
           cells2 == positions[d2]
           cellA == cells1[1]
           cellB == cells1[2]
           s1 == stripOtherCandidates(game.candidates, cellA[1], cellA[2], <<d1, d2>>, <<>>)
           s2 == stripOtherCandidates(s1.candidates, cellB[1], cellB[2], <<d1, d2>>,
                                      s1.removedCandidates)
           removedCandidates == s2.removedCandidates
           after == [game EXCEPT !.candidates = s2.candidates]
           ch2 == s2.ret \/ s1.ret
           SamePositions == IF variant = "Box"
                            THEN Len(cells2) = 2 /\ coordsEquals(cells1, cells2)
                            ELSE arrayEquals(cells1, cells2)
       IN IF Len(cells1) = 2 /\ SamePositions
          THEN IF Len(removedCandidates) > 0
               THEN Result(
                      addSnapshot(after,
                        [kind |-> "Hidden Pair", variant |-> variant, difficulty |-> 5,
                         highlight |->
                           unitHighlight @@
                           [blocks |-> <<cellA, cellB>>,
                            candidates |-> << <<cellA[1], cellA[2], d1>>,
                                              <<cellA[1], cellA[2], d2>>,
                                              <<cellB[1], cellB[2], d1>>,
                                              <<cellB[1], cellB[2], d2>> >>,
                            removedCandidates |-> removedCandidates]]),
                      ch2)
               ELSE Result(after, ch2)
          ELSE Result(game, FALSE)

applyHiddenPairsInRow(game, row) ==
  LET empties == EmptyCells(game, RowCells(row))
  IN IF Len(empties) < 2 THEN Result(game, FALSE)
     ELSE hiddenPairsInUnitRange(game, PositionsForDigit(game, empties), 1, PairRangeEnd(9),
                                "Row", [rows |-> <<row>>])

applyHiddenPairsInColumn(game, col) ==
  LET empties == EmptyCells(game, ColCells(col))
  IN IF Len(empties) < 2 THEN Result(game, FALSE)
     ELSE hiddenPairsInUnitRange(game, PositionsForDigit(game, empties), 1, PairRangeEnd(9),
                                "Column", [cols |-> <<col>>])

applyHiddenPairsInBox(game, boxRow, boxCol) ==
  LET emptyCells == EmptyCells(game, BoxCells(boxRow, boxCol))
  IN IF Len(emptyCells) < 2 THEN Result(game, FALSE)
     ELSE hiddenPairsInUnitRange(game, PositionsForDigit(game, emptyCells), 1, PairRangeEnd(9),
                                "Box", [boxes |-> << <<boxRow, boxCol>> >>])

\* Fault variant of hiddenPairsBoxesFrom: every box is scanned, whatever the
\* earlier boxes returned
RECURSIVE hiddenPairsBoxesWholeCategory(_, _)
hiddenPairsBoxesWholeCategory(game, k) ==
  IF k = 3 * 3 THEN Result(game, FALSE)
  ELSE LET Rest(res, rest) == Result(rest.game, res.ret \/ rest.ret)
           Continue(res) == Rest(res, hiddenPairsBoxesWholeCategory(res.game, k + 1))
       IN Continue(applyHiddenPairsInBox(game, k \div 3, k % 3))

RECURSIVE hiddenPairsBoxesFrom(_, _)
hiddenPairsBoxesFrom(game, k) ==
  IF k = 3 * 3 THEN Result(game, FALSE)
  ELSE LET Continue(res) == IF res.ret THEN res ELSE hiddenPairsBoxesFrom(res.game, k + 1)
       IN Continue(applyHiddenPairsInBox(game, k \div 3, k % 3))

RECURSIVE hiddenPairsRowsFrom(_, _)
hiddenPairsRowsFrom(game, row) ==
  IF row = 9 THEN Result(game, FALSE)
  ELSE LET Continue(res) == IF res.ret THEN res ELSE hiddenPairsRowsFrom(res.game, row + 1)
       IN Continue(applyHiddenPairsInRow(game, row))

RECURSIVE hiddenPairsColsFrom(_, _)
hiddenPairsColsFrom(game, col) ==
  IF col = 9 THEN Result(game, FALSE)
  ELSE LET Continue(res) == IF res.ret THEN res ELSE hiddenPairsColsFrom(res.game, col + 1)
       IN Continue(applyHiddenPairsInColumn(game, col))

applyHiddenPairs(game, opts) ==
  IF IsFalse(opts, "hiddenPairs") THEN Result(game, FALSE)
  ELSE LET Boxes(g) == IF NotFalse(opts, "hiddenPairsBoxes") THEN hiddenPairsBoxesFrom(g, 0) ELSE Result(g, FALSE)
           Rows(g) == IF NotFalse(opts, "hiddenPairsRows") THEN hiddenPairsRowsFrom(g, 0) ELSE Result(g, FALSE)
           Cols(g) == IF NotFalse(opts, "hiddenPairsCols") THEN hiddenPairsColsFrom(g, 0) ELSE Result(g, FALSE)
           AfterRows(res) == IF res.ret THEN res ELSE Cols(res.game)
           AfterBoxes(res) == IF res.ret THEN res ELSE AfterRows(Rows(res.game))
       IN AfterBoxes(Boxes(game))

(***************************************************************************)
(* Box-Line Reduction (boxLineReduction.ts)                                *)
(***************************************************************************)
isDigitInColumn(game, col, digit) == \E row \in Idx : game.board[row][col] = digit

\* Fault variant of eliminateDigitFromBox: the digit is deleted from the cells
\* of the excluded line too
eliminateDigitFromBoxWholeBox(game, boxRow, boxCol, digit, excludeRow, excludeCol) ==
  LET Excluded(cell) == \/ (excludeRow # <<>> /\ cell[1] = excludeRow[1])
                        \/ (excludeCol # <<>> /\ cell[2] = excludeCol[1])
      HasDigit(cell) == /\ game.board[cell[1]][cell[2]] = 0
                        /\ digit \in game.candidates[cell[1]][cell[2]]
      blockHighlight ==
        SelectSeq(BoxCells(boxRow, boxCol), LAMBDA cell : Excluded(cell) /\ HasDigit(cell))
      hit == SelectSeq(BoxCells(boxRow, boxCol), LAMBDA cell : HasDigit(cell))
      removedCandidates == [i \in 1 .. Len(hit) |-> <<hit[i][1], hit[i][2], digit>>]
  IN IF Len(removedCandidates) > 0
     THEN Result(
            addSnapshot(
              [game EXCEPT !.candidates = DeleteFrom(@, hit, <<digit>>)],
              [kind |-> "Box Line Reduction",
               variant |-> IF excludeRow = <<>> THEN "Column" ELSE "Row",
               difficulty |-> 5,
               highlight |->
                 [rows |-> excludeRow,
                  cols |-> excludeCol,
                  boxes |-> << <<boxRow, boxCol>> >>,
                  blocks |-> blockHighlight,
                  candidates |-> [i \in 1 .. Len(blockHighlight) |->
                                   <<blockHighlight[i][1], blockHighlight[i][2], digit>>],
                  removedCandidates |-> removedCandidates]]),
            TRUE)
     ELSE Result(game, FALSE)

\* Fault variant of eliminateDigitFromBox: the snapshot is given difficulty 7
eliminateDigitFromBoxGraded7(game, boxRow, boxCol, digit, excludeRow, excludeCol) ==
  LET Excluded(cell) == \/ (excludeRow # <<>> /\ cell[1] = excludeRow[1])
                        \/ (excludeCol # <<>> /\ cell[2] = excludeCol[1])
      HasDigit(cell) == /\ game.board[cell[1]][cell[2]] = 0
                        /\ digit \in game.candidates[cell[1]][cell[2]]
      blockHighlight ==
        SelectSeq(BoxCells(boxRow, boxCol), LAMBDA cell : Excluded(cell) /\ HasDigit(cell))
      hit == SelectSeq(BoxCells(boxRow, boxCol), LAMBDA cell : ~Excluded(cell) /\ HasDigit(cell))
      removedCandidates == [i \in 1 .. Len(hit) |-> <<hit[i][1], hit[i][2], digit>>]
  IN IF Len(removedCandidates) > 0
     THEN Result(
            addSnapshot(
              [game EXCEPT !.candidates = DeleteFrom(@, hit, <<digit>>)],
              [kind |-> "Box Line Reduction",
               variant |-> IF excludeRow = <<>> THEN "Column" ELSE "Row",
               difficulty |-> 7,
               highlight |->
                 [rows |-> excludeRow,
                  cols |-> excludeCol,
                  boxes |-> << <<boxRow, boxCol>> >>,
                  blocks |-> blockHighlight,
                  candidates |-> [i \in 1 .. Len(blockHighlight) |->
                                   <<blockHighlight[i][1], blockHighlight[i][2], digit>>],
                  removedCandidates |-> removedCandidates]]),
            TRUE)
     ELSE Result(game, FALSE)

\* An optional number argument is the sequence <<n>>, or <<>> when it is
\* undefined.  Cells of the excluded line are only collected for the
\* highlight; the digit is deleted from the other empty cells of the box.
eliminateDigitFromBox(game, boxRow, boxCol, digit, excludeRow, excludeCol) ==
  LET Excluded(cell) == \/ (excludeRow # <<>> /\ cell[1] = excludeRow[1])
                        \/ (excludeCol # <<>> /\ cell[2] = excludeCol[1])
      HasDigit(cell) == /\ game.board[cell[1]][cell[2]] = 0
                        /\ digit \in game.candidates[cell[1]][cell[2]]
      blockHighlight ==
        SelectSeq(BoxCells(boxRow, boxCol), LAMBDA cell : Excluded(cell) /\ HasDigit(cell))
      hit == SelectSeq(BoxCells(boxRow, boxCol), LAMBDA cell : ~Excluded(cell) /\ HasDigit(cell))
      removedCandidates == [i \in 1 .. Len(hit) |-> <<hit[i][1], hit[i][2], digit>>]
  IN IF Len(removedCandidates) > 0
     THEN Result(
            addSnapshot(
              [game EXCEPT !.candidates = DeleteFrom(@, hit, <<digit>>)],
              [kind |-> "Box Line Reduction",
               variant |-> IF excludeRow = <<>> THEN "Column" ELSE "Row",
               difficulty |-> 5,
               highlight |->
                 [rows |-> excludeRow,
                  cols |-> excludeCol,
                  boxes |-> << <<boxRow, boxCol>> >>,
                  blocks |-> blockHighlight,
                  candidates |-> [i \in 1 .. Len(blockHighlight) |->
                                   <<blockHighlight[i][1], blockHighlight[i][2], digit>>],
                  removedCandidates |-> removedCandidates]]),
            TRUE)
     ELSE Result(game, FALSE)

\* k enumerates (row, digit) in loop order
RECURSIVE boxLineReductionInRowsRange(_, _, _)
boxLineReductionInRowsRange(game, lo, hi) ==
  IF hi - lo > 1
  THEN LET mid == (lo + hi) \div 2
           left == boxLineReductionInRowsRange(game, lo, mid)
       IN IF left.ret THEN left ELSE boxLineReductionInRowsRange(left.game, mid, hi)
  ELSE LET k == lo
           row == k \div 9
           digit == (k % 9) + 1
           colsForDigit ==
             SelectSeq(IdxSeq, LAMBDA col :
               game.board[row][col] = 0 /\ digit \in game.candidates[row][col])
           boxColStart == colsForDigit[1] \div 3
           allSameBox == \A i \in 1 .. Len(colsForDigit) : colsForDigit[i] \div 3 = boxColStart
           rowBox == row \div 3
           res == eliminateDigitFromBox(game, rowBox, boxColStart, digit, <<row>>, <<>>)
       IN IF isDigitInRow(game.board, row, digit)
          THEN Result(game, FALSE)
          ELSE IF Len(colsForDigit) > 1 /\ Len(colsForDigit) <= 3 /\ allSameBox
          THEN IF res.ret THEN Result(res.game, TRUE)
               ELSE Result(res.game, FALSE)
          ELSE Result(game, FALSE)

applyBoxLineReductionInRows(game) == boxLineReductionInRowsRange(game, 0, 9 * 9)

\* k enumerates (col, digit) in loop order
RECURSIVE boxLineReductionInColumnsRange(_, _, _)
boxLineReductionInColumnsRange(game, lo, hi) ==
  IF hi - lo > 1
  THEN LET mid == (lo + hi) \div 2
           left == boxLineReductionInColumnsRange(game, lo, mid)
       IN IF left.ret THEN left ELSE boxLineReductionInColumnsRange(left.game, mid, hi)
  ELSE LET k == lo
           col == k \div 9
           digit == (k % 9) + 1
           rowsForDigit ==
             SelectSeq(IdxSeq, LAMBDA row :
               game.board[row][col] = 0 /\ digit \in game.candidates[row][col])
           boxRowStart == rowsForDigit[1] \div 3
           allSameBox == \A i \in 1 .. Len(rowsForDigit) : rowsForDigit[i] \div 3 = boxRowStart
           boxCol == col \div 3
           res == eliminateDigitFromBox(game, boxRowStart, boxCol, digit, <<>>, <<col>>)
       IN IF isDigitInColumn(game, col, digit)
          THEN Result(game, FALSE)
          ELSE IF Len(rowsForDigit) > 1 /\ Len(rowsForDigit) <= 3 /\ allSameBox
          THEN IF res.ret THEN Result(res.game, TRUE)
               ELSE Result(res.game, FALSE)
          ELSE Result(game, FALSE)

applyBoxLineReductionInColumns(game) == boxLineReductionInColumnsRange(game, 0, 9 * 9)

applyBoxLineReduction(game, opts) ==
  IF IsFalse(opts, "boxLineReduction") THEN Result(game, FALSE)
  ELSE LET Rows(g) == IF NotFalse(opts, "boxLineReductionRows") THEN applyBoxLineReductionInRows(g) ELSE Result(g, FALSE)
           Cols(g) == IF NotFalse(opts, "boxLineReductionCols") THEN applyBoxLineReductionInColumns(g) ELSE Result(g, FALSE)
           AfterRows(res) == IF res.ret THEN res ELSE Cols(res.game)
       IN AfterRows(Rows(game))

(***************************************************************************)
(* X-Wing (xwing.ts)                                                       *)
(***************************************************************************)
\* p indexes the pairs r1 < r2 in loop order; positions is the
\* digitPositionsInRow table built when the call started.
RECURSIVE xWingRowsRange(_, _, _, _, _)
xWingRowsRange(game, d, positions, lo, hi) ==
  IF hi - lo > 1
  THEN LET mid == (lo + hi) \div 2
           left == xWingRowsRange(game, d, positions, lo, mid)
           right == xWingRowsRange(left.game, d, positions, mid, hi)
       IN IF left.ret THEN Result(right.game, TRUE) ELSE right
  ELSE LET r1 == AllPairs[9][lo][1] - 1
           r2 == AllPairs[9][lo][2] - 1
           c1 == positions[r1][1]
           c2 == positions[r1][2]
           otherRows == SelectSeq(IdxSeq, LAMBDA rx : rx # r1 /\ rx # r2)
           targets ==
             EmptyCells(game, Flatten([i \in 1 .. Len(otherRows) |->
                                         << <<otherRows[i], c1>>, <<otherRows[i], c2>> >>]))
           removedCandidates == DeletedFrom(game.candidates, targets, <<d>>)
       IN IF /\ Len(positions[r1]) = 2
             /\ Len(positions[r2]) = 2
             /\ positions[r2][1] = c1
             /\ positions[r2][2] = c2
             /\ Len(removedCandidates) > 0
          THEN Result(
                 addSnapshot(
                   [game EXCEPT !.candidates = DeleteFrom(@, targets, <<d>>)],
                   [kind |-> "X-Wing", variant |-> "Row", difficulty |-> 6,
                    highlight |->
                      [blocks |-> << <<r1, c1>>, <<r2, c1>>, <<r1, c2>>, <<r2, c2>> >>,
                       cols |-> <<c1, c2>>,
                       rows |-> <<r1, r2>>,
                       candidates |-> << <<r1, c1, d>>, <<r2, c1, d>>,
                                         <<r1, c2, d>>, <<r2, c2, d>> >>,
                       removedCandidates |-> removedCandidates]]),
                 TRUE)
          ELSE Result(game, FALSE)

applyXWingRows(game, d) ==
  xWingRowsRange(
    game, d,
    Materialize(
      [r \in Idx |->
         SelectSeq(IdxSeq, LAMBDA c : game.board[r][c] = 0 /\ d \in game.candidates[r][c])]),
    1, PairRangeEnd(9))

\* p indexes the pairs c1 < c2 in loop order; positions is the
\* digitPositionsInCol table built when the call started.
RECURSIVE xWingColumnsRange(_, _, _, _, _)
xWingColumnsRange(game, d, positions, lo, hi) ==
  IF hi - lo > 1
  THEN LET mid == (lo + hi) \div 2
           left == xWingColumnsRange(game, d, positions, lo, mid)
           right == xWingColumnsRange(left.game, d, positions, mid, hi)
       IN IF left.ret THEN Result(right.game, TRUE) ELSE right
  ELSE LET c1 == AllPairs[9][lo][1] - 1
           c2 == AllPairs[9][lo][2] - 1
           r1 == positions[c1][1]
           r2 == positions[c1][2]
           otherCols == SelectSeq(IdxSeq, LAMBDA cx : cx # c1 /\ cx # c2)
           targets ==
             EmptyCells(game, Flatten([i \in 1 .. Len(otherCols) |->
                                         << <<r1, otherCols[i]>>, <<r2, otherCols[i]>> >>]))
           removedCandidates == DeletedFrom(game.candidates, targets, <<d>>)
       IN IF /\ Len(positions[c1]) = 2
             /\ Len(positions[c2]) = 2
             /\ positions[c2][1] = r1
             /\ positions[c2][2] = r2
             /\ Len(removedCandidates) > 0
          THEN Result(
                 addSnapshot(
                   [game EXCEPT !.candidates = DeleteFrom(@, targets, <<d>>)],
                   [kind |-> "X-Wing", variant |-> "Column", difficulty |-> 6,
                    highlight |->
                      [blocks |-> << <<r1, c1>>, <<r2, c1>>, <<r1, c2>>, <<r2, c2>> >>,
                       cols |-> <<c1, c2>>,
                       rows |-> <<r1, r2>>,
                       candidates |-> << <<r1, c1, d>>, <<r2, c1, d>>,
                                         <<r1, c2, d>>, <<r2, c2, d>> >>,
                       removedCandidates |-> removedCandidates]]),
                 TRUE)
          ELSE Result(game, FALSE)

applyXWingColumns(game, d) ==
  xWingColumnsRange(
    game, d,
    Materialize(
      [c \in Idx |->
         SelectSeq(IdxSeq, LAMBDA r : game.board[r][c] = 0 /\ d \in game.candidates[r][c])]),
    1, PairRangeEnd(9))

RECURSIVE xWingFrom(_, _, _)
xWingFrom(game, opts, d) ==
  IF d > 9 THEN Result(game, FALSE)
  ELSE LET Rows(g) == IF NotFalse(opts, "xWingRows") THEN applyXWingRows(g, d) ELSE Result(g, FALSE)
           Cols(g) == IF NotFalse(opts, "xWingCols") THEN applyXWingColumns(g, d) ELSE Result(g, FALSE)
           AfterCols(res) == IF res.ret THEN res ELSE xWingFrom(res.game, opts, d + 1)
           AfterRows(res) == IF res.ret THEN res ELSE AfterCols(Cols(res.game))
       IN AfterRows(Rows(game))

applyXWing(game, opts) ==
  IF IsFalse(opts, "xWing") THEN Result(game, FALSE)
  ELSE xWingFrom(game, opts, 1)

(***************************************************************************)
(* The inputs of solveSudoku: a 9x9 matrix and the options.                *)
(***************************************************************************)
\* The boards given to solveSudoku.  A row is written as the number its nine
\* digits spell, 0 being an empty cell.
Boards == <<
  \* 1: two cells left, both naked singles; the logic completes the board
  <<534678912, 672195348, 198342567, 859761423, 426853791,
    713924856, 961537284, 287419635, 345286100>>,
  \* 2: the empty board: it has completions, and no strategy finds anything
  <<000000000, 000000000, 000000000, 000000000, 000000000,
    000000000, 000000000, 000000000, 000000000>>,
  \* 3: hidden singles, a box-line reduction (Column) and an X-Wing (Row)
  <<478300520, 000000000, 000004008, 040002080, 200000090,
    600805004, 000000300, 000500060, 907000000>>,
  \* 4: naked triples: two snapshots in one column call, then one in a box
  <<500000000, 006000000, 080091000, 000300050, 000780003,
    700920000, 000070040, 000200000, 400000000>>,
  \* 5: a puzzle with a solution; naked pairs, and naked triples that leave a
  \*    single-candidate cell
  <<050000000, 986005000, 120798300, 710000200, 630902040,
    000000000, 060307509, 002000008, 000000104>>,
  \* 6: hidden pairs: two snapshots in one box call; a box-line reduction (Row)
  <<504000000, 200801000, 800000004, 050004000, 700680040,
    006010280, 600000020, 002000600, 080900000>>,
  \* 7: no repeated digit but no solution; three hidden-pair snapshots in one
  \*    call
  <<000370900, 000009002, 009412007, 000001000, 000000000,
    040820000, 000000300, 000643008, 030908000>>,
  \* 8: no repeated digit but no solution; naked pairs in a row, a column and a
  \*    box; three X-Wing snapshots in one call
  <<000080000, 000007000, 000005000, 170238000, 060070040,
    000009060, 507006304, 403502000, 681000090>>,
  \* 9: a full board with 5 repeated in the last row, column and box
  <<534678912, 672195348, 198342567, 859761423, 426853791,
    713924856, 961537284, 287419635, 345286155>>,
  \* 10: acts by default: Naked Single
  <<048370020, 009042000, 600000034, 804520000, 590000070,
    000090000, 000000340, 087000060, 060000000>>,
  \* 11: acts by default: Hidden Pair (Box), Naked Pair (Box), Naked Pair
  \*    (Column)
  <<460009000, 807601340, 000000000, 030040000, 200100000,
    000006034, 002300000, 050000000, 010090000>>,
  \* 12: acts by default: Hidden Single (Box), Naked Pair (Box), Naked Pair
  \*    (Row), Naked Single
  <<100200075, 000100000, 023465001, 000000000, 498002050,
    200500004, 000000000, 540000000, 070050000>>,
  \* 13: acts by default: Naked Pair (Box), Naked Pair (Column), Naked Single
  <<360004080, 090005000, 700002000, 000021000, 010009600,
    270000000, 020600005, 030000006, 000203000>>,
  \* 14: acts by default: Naked Pair (Box), Naked Pair (Column), Naked Single
  <<100000000, 498000105, 000009008, 000000040, 900000003,
    041096500, 034068000, 052000000, 010030000>>,
  \* 15: acts by default: Hidden Single (Box)
  <<004000706, 050000001, 000700050, 108630200, 000000000,
    060000000, 080903000, 023560000, 000000020>>,
  \* 16: acts by default: Hidden Single (Box), Hidden Single (Row)
  <<002001040, 000400002, 001003000, 065000401, 008000000,
    300200058, 000000030, 000730000, 000060080>>,
  \* 17: acts by default: Hidden Single (Column)
  <<040200000, 000000097, 000500003, 090702806, 000409000,
    020030000, 500000600, 009000000, 201300000>>,
  \* 18: acts by default: Hidden Single (Box)
  <<300000009, 000000354, 006500070, 070004006, 000000400,
    034060000, 003000000, 000000200, 800000563>>,
  \* 19: acts by default: Naked Pair (Column), Naked Triple (Box)
  <<000070190, 000309020, 000000000, 000700840, 000020000,
    007090012, 000500000, 700040200, 010980406>>,
  \* 20: acts by default: Hidden Single (Box), Naked Single, Naked Triple (Box),
  \*    Naked Triple (Row)
  <<208705100, 301009075, 076000900, 010300000, 060052000,
    000006000, 900007000, 000090000, 100203009>>,
  \* 21: acts by default: Hidden Single (Box), Naked Triple (Column)
  <<087010403, 000400002, 000002000, 504003120, 320000500,
    070000930, 005030009, 800500007, 000000000>>,
  \* 22: acts by default: Box Line Reduction (Row), Hidden Pair (Box)
  <<640009000, 009050001, 000000000, 000060083, 980000010,
    003000002, 408600000, 000084100, 500000030>>,
  \* 23: acts by default: Hidden Pair (Row), Naked Pair (Box), Naked Pair (Row),
  \*    Naked Single
  <<000200000, 800070000, 250060701, 304000009, 510000000,
    900702000, 030004000, 600391200, 400080006>>,
  \* 24: acts by default: Box Line Reduction (Column), Box Line Reduction (Row),
  \*    Hidden Pair (Column), Naked Single
  <<700000080, 100200000, 590070010, 070500000, 300007000,
    000009407, 000100030, 604705008, 800000005>>,
  \* 25: acts by default: Box Line Reduction (Column), Hidden Pair (Box), Naked
  \*    Single
  <<003401000, 000000000, 010702530, 000800002, 000065003,
    000200080, 800000109, 000018040, 000900008>>,
  \* 26: acts by default: Box Line Reduction (Column)
  <<600092400, 020005006, 000846000, 200000000, 000000300,
    030604009, 050409000, 016008000, 740000508>>,
  \* 27: acts by default: Box Line Reduction (Row)
  <<300612000, 004000000, 050000000, 000000273, 000007500,
    700000008, 030000000, 000004001, 148700030>>,
  \* 28: acts by default: Box Line Reduction (Column), Hidden Single (Box),
  \*    X-Wing (Row)
  <<040030000, 500070108, 097000203, 300400000, 000100006,
    020086000, 200640000, 003002000, 400000000>>,
  \* 29: acts by default: Box Line Reduction (Row), Hidden Single (Box), Naked
  \*    Pair (Row), Naked Single, X-Wing (Column)
  <<510764000, 030000570, 000000610, 000000005, 300940028,
    000000060, 860000000, 003080700, 007036000>>,
  \* 30: a longer run: every strategy but hidden pairs in boxes acts
  <<000090780, 600028409, 498500310, 000030520, 000700030,
    730000600, 004080100, 000059200, 003200000>>,
  \* 31: naked and hidden singles alone complete it; by default a naked pair
  \*     (Row) is found before the first hidden single is looked for
  <<958174236, 614293578, 003568491, 800031950, 091485360,
    035029810, 349817625, 500942183, 182356749>>,
  \* 32: no repeated digit but no solution: the four empty cells admit the
  \*     digit 5 only, and (3,1), (3,8) share a row, (5,7), (7,7) a column
  <<534678912, 672195348, 198342567, 809761420, 426853791,
    713924806, 961537284, 287419603, 345286179>>,
  \* 33: at one Hidden Pairs call two boxes hold a hidden pair that removes
  \*     a candidate
  <<070406180, 000300507, 009000260, 090605000, 050930000,
    000000400, 700060010, 500040000, 020000300>>
>>

DigitAt(n, col) == (n \div (10 ^ (BOARD_SIZE - 1 - col))) % 10

InputBoard(i) ==
  Materialize([row \in Idx |-> [col \in Idx |-> DigitAt(Boards[i][row + 1], col)]])

\* SolverOptions with every flag set to true
AllTrue ==
  [nakedSingles |-> TRUE,
   nakedPairs |-> TRUE,
   nakedPairsRows |-> TRUE,
   nakedPairsCols |-> TRUE,
   nakedPairsBoxes |-> TRUE,
   hiddenSingles |-> TRUE,
   hiddenSinglesRows |-> TRUE,
   hiddenSinglesCols |-> TRUE,
   hiddenSinglesBoxes |-> TRUE,
   nakedTriples |-> TRUE,
   nakedTriplesRows |-> TRUE,
   nakedTriplesCols |-> TRUE,
   nakedTriplesBoxes |-> TRUE,
   hiddenPairs |-> TRUE,
   hiddenPairsRows |-> TRUE,
   hiddenPairsCols |-> TRUE,
   hiddenPairsBoxes |-> TRUE,
   boxLineReduction |-> TRUE,
   boxLineReductionRows |-> TRUE,
   boxLineReductionCols |-> TRUE,
   xWing |-> TRUE,
   xWingRows |-> TRUE,
   xWingCols |-> TRUE]

\* The calls of solveSudoku that are checked: the board and the options
\* argument, <<>> when the caller leaves it out.  The first NumCalls are used.
Calls == <<
  [board |-> 1, options |-> <<>>],
  [board |-> 2, options |-> <<>>],
  [board |-> 3, options |-> <<>>],
  [board |-> 4, options |-> <<>>],
  [board |-> 5, options |-> <<>>],
  [board |-> 6, options |-> <<>>],
  [board |-> 7, options |-> <<>>],
  [board |-> 8, options |-> <<>>],
  [board |-> 9, options |-> <<>>],
  [board |-> 10, options |-> [nakedSingles |-> FALSE]],
  [board |-> 11, options |-> [nakedPairs |-> FALSE]],
  [board |-> 12, options |-> [nakedPairsRows |-> FALSE]],
  [board |-> 13, options |-> [nakedPairsCols |-> FALSE]],
  [board |-> 14, options |-> [nakedPairsBoxes |-> FALSE]],
  [board |-> 15, options |-> [hiddenSingles |-> FALSE]],
  [board |-> 16, options |-> [hiddenSinglesRows |-> FALSE]],
  [board |-> 17, options |-> [hiddenSinglesCols |-> FALSE]],
  [board |-> 18, options |-> [hiddenSinglesBoxes |-> FALSE]],
  [board |-> 19, options |-> [nakedTriples |-> FALSE]],
  [board |-> 20, options |-> [nakedTriplesRows |-> FALSE]],
  [board |-> 21, options |-> [nakedTriplesCols |-> FALSE]],
  [board |-> 19, options |-> [nakedTriplesBoxes |-> FALSE]],
  [board |-> 22, options |-> [hiddenPairs |-> FALSE]],
  [board |-> 23, options |-> [hiddenPairsRows |-> FALSE]],
  [board |-> 24, options |-> [hiddenPairsCols |-> FALSE]],
  [board |-> 25, options |-> [hiddenPairsBoxes |-> FALSE]],
  [board |-> 26, options |-> [boxLineReduction |-> FALSE]],
  [board |-> 27, options |-> [boxLineReductionRows |-> FALSE]],
  [board |-> 26, options |-> [boxLineReductionCols |-> FALSE]],
  [board |-> 28, options |-> [xWing |-> FALSE]],
  [board |-> 28, options |-> [xWingRows |-> FALSE]],
  [board |-> 29, options |-> [xWingCols |-> FALSE]],
  [board |-> 3, options |-> AllTrue],
  [board |-> 31, options |-> <<>>],
  [board |-> 32, options |-> <<>>],
  [board |-> 31, options |-> [nakedSingles |-> FALSE]],
  [board |-> 33, options |-> <<>>],
  [board |-> 30, options |-> <<>>]
>>

NumCalls == 37

(***************************************************************************)
(* String arguments.  A puzzle string is a sequence of one-character       *)
(* strings; NaN stands for the value parseInt gives for a character that   *)
(* is no decimal digit.                                                    *)
(***************************************************************************)
NaN == -1

parseInt(char) ==
  CASE char = "0" -> 0
    [] char = "1" -> 1
    [] char = "2" -> 2
    [] char = "3" -> 3
    [] char = "4" -> 4
    [] char = "5" -> 5
    [] char = "6" -> 6
    [] char = "7" -> 7
    [] char = "8" -> 8
    [] char = "9" -> 9
    [] OTHER -> NaN

\* fault: only '.' stands for an empty cell, so '0' is parsed and refused
stringToBoardCellDotOnly(puzzleString, index) ==
  LET char == puzzleString[index + 1]
  IN IF char = "."
     THEN [threw |-> FALSE, digit |-> 0]
     ELSE LET digit == parseInt(char)
          IN [threw |-> digit # NaN /\ (digit < 1 \/ digit > 9), digit |-> digit]

\* The body of stringToBoard's inner loop for one index: whether it throws,
\* and the number it pushes.  "digit < 1 || digit > 9" is false for NaN.
stringToBoardCell(puzzleString, index) ==
  LET char == puzzleString[index + 1]
  IN IF char = "." \/ char = "0"
     THEN [threw |-> FALSE, digit |-> 0]
     ELSE LET digit == parseInt(char)
          IN [threw |-> digit # NaN /\ (digit < 1 \/ digit > 9), digit |-> digit]

\* Fault variant of stringToBoard: only a string that is too short is refused
stringToBoardShortOnly(puzzleString) ==
  IF Len(puzzleString) < 81
  THEN [threw |-> TRUE, board |-> <<>>]
  ELSE IF \E index \in 0 .. 80 : stringToBoardCell(puzzleString, index).threw
  THEN [threw |-> TRUE, board |-> <<>>]
  ELSE [threw |-> FALSE,
        board |-> Materialize([row \in 0 .. 8 |-> [col \in 0 .. 8 |->
                    stringToBoardCell(puzzleString, row * 9 + col).digit]])]

\* stringToBoard: threw is TRUE when it ends in "throw new Error(...)",
\* otherwise board is the returned array
stringToBoard(puzzleString) ==
  IF Len(puzzleString) # 81
  THEN [threw |-> TRUE, board |-> <<>>]
  ELSE IF \E index \in 0 .. 80 : stringToBoardCell(puzzleString, index).threw
  THEN [threw |-> TRUE, board |-> <<>>]
  ELSE [threw |-> FALSE,
        board |-> Materialize([row \in 0 .. 8 |-> [col \in 0 .. 8 |->
                    stringToBoardCell(puzzleString, row * 9 + col).digit]])]

\* typeof startingBoard === 'string': a string is indexed from its first
\* character, a board from row 0
IsString(x) == 0 \notin DOMAIN x

\* Board i written as a puzzle string, its empty cells as '.' and '0' in turn
PuzzleString(i) ==
  [index \in 1 .. NumCells |->
     LET digit == DigitAt(Boards[i][((index - 1) \div BOARD_SIZE) + 1], (index - 1) % BOARD_SIZE)
     IN IF digit = 0 THEN (IF index % 2 = 0 THEN "." ELSE "0") ELSE ToString(digit)]

StringCalls == <<
  PuzzleString(1),
  SubSeq(PuzzleString(1), 1, 80),
  PuzzleString(1) \o <<"1">>,
  <<>>,
  [PuzzleString(1) EXCEPT ![1] = "a"],
  [PuzzleString(1) EXCEPT ![41] = " "],
  [PuzzleString(1) EXCEPT ![81] = "x"],
  [PuzzleString(1) EXCEPT ![80] = "-"],
  PuzzleString(10),
  [PuzzleString(10) EXCEPT ![2] = "?"]
>>

NumStringCalls == 9

(***************************************************************************)
(* solveSudoku as a state machine.  pc is the statement about to run:      *)
(* "start" the prelude (clone, buildCandidates, initial snapshot), "while" *)
(* the loop test of applyLogicalStrategies, one label per                  *)
(* "if (!changed && applyX(game, opts)) changed = true" line, "return"     *)
(* the return statement, "done" after the call, "error" after a call that  *)
(* ended in an exception.                                                  *)
(***************************************************************************)
Game == [board |-> board, candidates |-> candidates, snapshots |-> snapshots]

Init ==
  /\ \/ \E i \in 1 .. NumCalls :
          /\ startingBoard = InputBoard(Calls[i].board)
          /\ options = Calls[i].options
     \/ \E i \in 1 .. NumStringCalls :
          /\ startingBoard = StringCalls[i]
          /\ options = <<>>
  /\ board = <<>>
  /\ candidates = <<>>
  /\ snapshots = <<>>
  /\ changed = FALSE
  /\ pc = "start"
  /\ frames = <<>>
  /\ returned = "none"

SetGame(game) ==
  /\ board' = game.board
  /\ candidates' = game.candidates
  /\ snapshots' = game.snapshots

\* Fault variant of Start: the initial addSnapshot call is missing
StartWithoutSnapshot ==
  /\ pc = "start"
  /\ LET Begin(b) ==
           /\ SetGame([board |-> b, candidates |-> buildCandidates(b), snapshots |-> <<>>])
           /\ changed' = TRUE
           /\ pc' = "while"
         Parsed(res) ==
           IF res.threw
           THEN pc' = "error" /\ UNCHANGED <<board, candidates, snapshots, changed>>
           ELSE Begin(deepCloneBoard(res.board))
     IN IF IsString(startingBoard)
        THEN Parsed(stringToBoard(startingBoard))
        ELSE Begin(deepCloneBoard(startingBoard))
  /\ UNCHANGED <<startingBoard, options, frames, returned>>

\* solveSudoku, up to the call of applyLogicalStrategies and its "let changed = true"
Start ==
  /\ pc = "start"
  /\ LET Begin(b) ==
           /\ SetGame(addSnapshot([board |-> b, candidates |-> buildCandidates(b), snapshots |-> <<>>],
                                  [kind |-> "Initial Board", difficulty |-> 0]))
           /\ changed' = TRUE
           /\ pc' = "while"
         Parsed(res) ==
           IF res.threw
           THEN pc' = "error" /\ UNCHANGED <<board, candidates, snapshots, changed>>
           ELSE Begin(deepCloneBoard(res.board))
     IN IF IsString(startingBoard)
        THEN Parsed(stringToBoard(startingBoard))
        ELSE Begin(deepCloneBoard(startingBoard))
  /\ UNCHANGED <<startingBoard, options, frames, returned>>

\* while (changed) { changed = false; ... }
LoopTest ==
  /\ pc = "while"
  /\ IF changed
     THEN changed' = FALSE /\ pc' = "nakedSingles"
     ELSE changed' = changed /\ pc' = "return"
  /\ UNCHANGED <<startingBoard, options, board, candidates, snapshots, frames, returned>>

\* Fault variant of StrategyLine: the "!changed &&" guard is missing
StrategyLineUnguarded(here, next, res) ==
  /\ pc = here
  /\ SetGame(res.game)
  /\ changed' = (changed \/ res.ret)
  /\ pc' = next
  /\ UNCHANGED <<startingBoard, options, frames, returned>>

\* Fault variant of StrategyLine: the game's board is the caller's own
\* matrix (no deepCloneBoard), so what a strategy writes shows in it
StrategyLineOnCallerBoard(here, next, res) ==
  /\ pc = here
  /\ IF ~changed
     THEN /\ SetGame(res.game)
          /\ changed' = res.ret
          /\ startingBoard' = IF IsString(startingBoard) THEN startingBoard
                                                         ELSE res.game.board
     ELSE UNCHANGED <<board, candidates, snapshots, changed, startingBoard>>
  /\ pc' = next
  /\ UNCHANGED <<options, frames, returned>>

\* if (!changed && applyX(game, opts)) changed = true;
StrategyLine(here, next, res) ==
  /\ pc = here
  /\ IF ~changed
     THEN SetGame(res.game) /\ changed' = res.ret
     ELSE UNCHANGED <<board, candidates, snapshots, changed>>
  /\ pc' = next
  /\ UNCHANGED <<startingBoard, options, frames, returned>>

TryNakedSingles == StrategyLine("nakedSingles", "nakedPairs", applyNakedSingles(Game, options))

TryNakedPairs == StrategyLine("nakedPairs", "hiddenSingles", applyNakedPairs(Game, options))

TryHiddenSingles == StrategyLine("hiddenSingles", "nakedTriples", applyHiddenSingles(Game, options))

TryNakedTriples == StrategyLine("nakedTriples", "hiddenPairs", applyNakedTriples(Game, options))

TryHiddenPairs == StrategyLine("hiddenPairs", "boxLineReduction", applyHiddenPairs(Game, options))

TryBoxLineReduction == StrategyLine("boxLineReduction", "xWing", applyBoxLineReduction(Game, options))

\* Fault variant of TryXWing: the loop is left after one pass whatever
\* "changed" says
TryXWingLeavesLoop == StrategyLine("xWing", "return", applyXWing(Game, options))

TryXWing == StrategyLine("xWing", "while", applyXWing(Game, options))

\* the backtracking block of solveSudoku is commented out: return game
Return ==
  /\ pc = "return"
  /\ pc' = "done"
  /\ UNCHANGED <<startingBoard, options, board, candidates, snapshots, changed, frames, returned>>

Next ==
  \/ Start
  \/ LoopTest
  \/ TryNakedSingles
  \/ TryNakedPairs
  \/ TryHiddenSingles
  \/ TryNakedTriples
  \/ TryHiddenPairs
  \/ TryBoxLineReduction
  \/ TryXWing
  \/ Return

Spec == Init /\ [][Next]_vars

(***************************************************************************)
(* The rule check of the backtracking helpers.                             *)
(***************************************************************************)
\* isValid: digit is in neither the row, the column nor the box of (row, col)
isValid(b, row, col, digit) ==
  LET startRow == row - (row % BOX_SIZE)
      startCol == col - (col % BOX_SIZE)
  IN /\ \A c \in Idx : b[row][c] # digit
     /\ \A r \in Idx : b[r][col] # digit
     /\ \A r \in BoxIdx : \A c \in BoxIdx : b[startRow + r][startCol + c] # digit

(***************************************************************************)
(* applyLogicalStrategies as a function of the game it is handed: the      *)
(* result of running the loop on a game other than the live one.           *)
(***************************************************************************)
\* one iteration of the while loop: the strategies are tried in order until
\* one returns true; ret is the value of "changed" at the end of the body
applyLogicalStrategiesPass(game, opts) ==
  LET After6(res) == IF res.ret THEN res ELSE applyXWing(res.game, opts)
      After5(res) == IF res.ret THEN res ELSE After6(applyBoxLineReduction(res.game, opts))
      After4(res) == IF res.ret THEN res ELSE After5(applyHiddenPairs(res.game, opts))
      After3(res) == IF res.ret THEN res ELSE After4(applyNakedTriples(res.game, opts))
      After2(res) == IF res.ret THEN res ELSE After3(applyHiddenSingles(res.game, opts))
      After1(res) == IF res.ret THEN res ELSE After2(applyNakedPairs(res.game, opts))
  IN After1(applyNakedSingles(game, opts))

\* while (changed) { ... }: the game the loop leaves
RECURSIVE applyLogicalStrategies(_, _)
applyLogicalStrategies(game, opts) ==
  LET Again(res) == IF res.ret THEN applyLogicalStrategies(res.game, opts) ELSE res.game
  IN Again(applyLogicalStrategiesPass(game, opts))

\* solveSudoku for a board matrix, as a function of its arguments: the game
\* it returns
solveSudoku(matrix, opts) ==
  LET b == deepCloneBoard(matrix)
  IN applyLogicalStrategies(
       addSnapshot([board |-> b, candidates |-> buildCandidates(b), snapshots |-> <<>>],
                   [kind |-> "Initial Board", difficulty |-> 0]),
       opts)

(***************************************************************************)
(* backtrack(game): the recursive search, one frame of `frames` per call   *)
(* that is in progress.  A frame holds the locals of its call (row, col,   *)
(* possibleDigits, the position i of the for loop, oldCandidates) and      *)
(* three history fields that the code does not have: entryBoard and        *)
(* entryCandidates, the board and the candidate grid when the call was     *)
(* entered, and placed, whether the call has placed a trial digit.         *)
(* `returned` holds the value of the call that returned last, with the     *)
(* state that call was entered in.                                         *)
(***************************************************************************)
\* findEmptyCell: the first empty cell in row-major order, <<-1, -1>> if none
RECURSIVE findEmptyCellFrom(_, _)
findEmptyCellFrom(b, k) ==
  IF k >= NumCells THEN <<-1, -1>>
  ELSE IF b[RowOf(k)][ColOf(k)] = 0 THEN <<RowOf(k), ColOf(k)>>
  ELSE findEmptyCellFrom(b, k + 1)

findEmptyCell(b) == findEmptyCellFrom(b, 0)

\* fault: the undo of a placement without the rebuild of the grid
rebuildAllCandidatesSkipped(game) == game.candidates

\* rebuildAllCandidates: every cell's set is replaced by the freshly built one
rebuildAllCandidates(game) ==
  LET newCands == buildCandidates(game.board)
  IN Materialize([r \in Idx |-> [c \in Idx |-> newCands[r][c]]])

\* the entry games of the search: a board, and whether the logical
\* strategies have run on it before backtrack is called
BacktrackCalls == <<
  [board |-> 32, logic |-> FALSE],
  [board |-> 1, logic |-> FALSE],
  [board |-> 33, logic |-> TRUE],
  [board |-> 16, logic |-> FALSE],
  [board |-> 31, logic |-> FALSE],
  [board |-> 30, logic |-> TRUE]
>>

NumBacktrackCalls == 5

\* the game solveSudoku has built when it reaches "If still not solved, do
\* backtracking", or the game a caller of the exported backtrack builds
BacktrackEntry(call) ==
  LET b == deepCloneBoard(InputBoard(call.board))
      fresh == [board |-> b, candidates |-> buildCandidates(b), snapshots |-> <<>>]
  IN IF call.logic
     THEN applyLogicalStrategies(
            addSnapshot(fresh, [kind |-> "Initial Board", difficulty |-> 0]), <<>>)
     ELSE fresh

BacktrackInit ==
  \E i \in 1 .. NumBacktrackCalls :
    LET Enter(game) ==
          /\ board = game.board
          /\ candidates = game.candidates
          /\ snapshots = game.snapshots
    IN /\ startingBoard = InputBoard(BacktrackCalls[i].board)
       /\ options = <<>>
       /\ Enter(BacktrackEntry(BacktrackCalls[i]))
       /\ changed = FALSE
       /\ pc = "backtrack"
       /\ frames = <<>>
       /\ returned = <<>>

\* the frame of the call that is running
Top == frames[Len(frames)]

\* return value: the frame is dropped and the caller resumes after its
\* recursive call, or the outermost call is over
ReturnFrom(value, call, rest) ==
  /\ returned' = <<[value |-> value, call |-> call]>>
  /\ frames' = rest
  /\ pc' = IF rest = <<>> THEN "backtracked" ELSE "recursed"

\* const [row, col] = findEmptyCell(game.board); if none return true;
\* const possibleDigits = [...game.candidates[row][col]]
BacktrackCall ==
  /\ pc = "backtrack"
  /\ LET cell == findEmptyCell(board)
         row == cell[1]
         col == cell[2]
     IN IF row = -1 /\ col = -1
        THEN ReturnFrom(TRUE, [row |-> -1, col |-> -1, entryBoard |-> board,
                               entryCandidates |-> candidates, placed |-> FALSE], frames)
        ELSE /\ frames' = Append(frames,
                            [row |-> row, col |-> col,
                             possibleDigits |-> SetToSeq(candidates[row][col]),
                             i |-> 1,
                             oldCandidates |-> {},
                             placed |-> FALSE,
                             entryBoard |-> board,
                             entryCandidates |-> candidates])
             /\ pc' = "for"
             /\ returned' = returned
  /\ UNCHANGED <<startingBoard, options, board, candidates, snapshots, changed>>

\* fault: the loop gives up after its first digit
possibleDigitsExhaustedAfterFirst(f) == f.i > 1 \/ f.i > Len(f.possibleDigits)

\* for (const digit of possibleDigits): no digit is left to try
possibleDigitsExhausted(f) == f.i > Len(f.possibleDigits)

\* for (const digit of possibleDigits): after the last digit return false;
\* a digit that isValid rejects is passed over; otherwise the digit is
\* placed, the cell's set saved and restricted, the peers cleared, and the
\* call recurses
BacktrackTry ==
  /\ pc = "for"
  /\ LET f == Top
         rest == SubSeq(frames, 1, Len(frames) - 1)
     IN IF possibleDigitsExhausted(f)
        THEN /\ ReturnFrom(FALSE, [row |-> f.row, col |-> f.col,
                                   entryBoard |-> f.entryBoard,
                                   entryCandidates |-> f.entryCandidates, placed |-> f.placed], rest)
             /\ UNCHANGED <<board, candidates>>
        ELSE LET digit == f.possibleDigits[f.i]
             IN IF isValid(board, f.row, f.col, digit)
                THEN LET b2 == [board EXCEPT ![f.row][f.col] = digit]
                         c1 == [candidates EXCEPT ![f.row][f.col] = {digit}]
                     IN /\ board' = b2
                        /\ candidates' = eliminateFromPeers(b2, c1, f.row, f.col, digit)
                        /\ frames' = Append(rest,
                                       [f EXCEPT !.oldCandidates = candidates[f.row][f.col],
                                                 !.placed = TRUE])
                        /\ pc' = "backtrack"
                        /\ returned' = returned
                ELSE /\ frames' = Append(rest, [f EXCEPT !.i = f.i + 1])
                     /\ pc' = "for"
                     /\ UNCHANGED <<board, candidates, returned>>
  /\ UNCHANGED <<startingBoard, options, snapshots, changed>>

\* fault: after a failed trial the digit stays on the board
BacktrackRecursedKeepsDigit ==
  /\ pc = "recursed"
  /\ LET f == Top
         rest == SubSeq(frames, 1, Len(frames) - 1)
     IN IF returned[1].value
        THEN /\ ReturnFrom(TRUE, [row |-> f.row, col |-> f.col,
                                  entryBoard |-> f.entryBoard,
                                  entryCandidates |-> f.entryCandidates, placed |-> f.placed], rest)
             /\ UNCHANGED <<board, candidates>>
        ELSE /\ frames' = Append(rest, [f EXCEPT !.i = f.i + 1])
             /\ pc' = "for"
             /\ UNCHANGED <<board, candidates, returned>>
  /\ UNCHANGED <<startingBoard, options, snapshots, changed>>

\* if (backtrack(game)) return true; otherwise the placement is undone:
\* the cell is emptied, its set is put back, and rebuildAllCandidates
\* replaces every set of the grid
BacktrackRecursed ==
  /\ pc = "recursed"
  /\ LET f == Top
         rest == SubSeq(frames, 1, Len(frames) - 1)
     IN IF returned[1].value
        THEN /\ ReturnFrom(TRUE, [row |-> f.row, col |-> f.col,
                                  entryBoard |-> f.entryBoard,
                                  entryCandidates |-> f.entryCandidates, placed |-> f.placed], rest)
             /\ UNCHANGED <<board, candidates>>
        ELSE LET b2 == [board EXCEPT ![f.row][f.col] = 0]
                 c1 == [candidates EXCEPT ![f.row][f.col] = f.oldCandidates]
             IN /\ board' = b2
                /\ candidates' = rebuildAllCandidates([board |-> b2, candidates |-> c1,
                                                       snapshots |-> snapshots])
                /\ frames' = Append(rest, [f EXCEPT !.i = f.i + 1])
                /\ pc' = "for"
                /\ returned' = returned
  /\ UNCHANGED <<startingBoard, options, snapshots, changed>>

BacktrackNext == BacktrackCall \/ BacktrackTry \/ BacktrackRecursed

BacktrackSpec == BacktrackInit /\ [][BacktrackNext]_vars

(***************************************************************************)
(* Properties of solveSudoku                                               *)
(***************************************************************************)

\* the 27 units (9 rows, 9 columns, 9 boxes), each a sequence of 9 cells
Units ==
  Materialize([u \in 0 .. 26 |->
    IF u < 9 THEN RowCells(u)
    ELSE IF u < 18 THEN ColCells(u - 9)
    ELSE BoxCells((u - 18) \div BOX_SIZE, (u - 18) % BOX_SIZE)])

\* no non-zero digit occurs twice in a row, a column or a box of b
NoRepeat(b) ==
  \A u \in 0 .. 26 : \A i \in 1 .. BOARD_SIZE : \A j \in (i + 1) .. BOARD_SIZE :
    LET x == b[Units[u][i][1]][Units[u][i][2]]
    IN x = 0 \/ x # b[Units[u][j][1]][Units[u][j][2]]

\* a complete grid that obeys the rules
KnownSolution ==
  LET rows == <<534678912, 672195348, 198342567, 859761423, 426853791,
                713924856, 961537284, 287419635, 345286179>>
  IN Materialize([row \in Idx |-> [col \in Idx |-> DigitAt(rows[row + 1], col)]])

\* b has a valid completion: the known solution agrees with b on every given
HasKnownCompletion(b) ==
  /\ isComplete(KnownSolution)
  /\ NoRepeat(KnownSolution)
  /\ \A r \in Idx : \A c \in Idx : b[r][c] = 0 \/ b[r][c] = KnownSolution[r][c]

\* the snapshot has an empty cell with exactly one candidate
HasNakedSingle(sn) ==
  \E r \in Idx : \E c \in Idx : sn.board[r][c] = 0 /\ Cardinality(sn.candidates[r][c]) = 1

HasRemoved(sn) == "highlight" \in DOMAIN sn /\ "removedCandidates" \in DOMAIN sn.highlight

\* the board a call works from:
\* typeof startingBoard === 'string' ? stringToBoard(startingBoard) : startingBoard
InputGrid ==
  IF IsString(startingBoard) THEN stringToBoard(startingBoard).board ELSE startingBoard

\* the call has built its game (it is past the prelude and did not throw)
Started == pc \notin {"start", "error"}

\* C1: whenever solveSudoku returns for an input board that has a valid
\* completion, the returned board has no empty cell (the logical strategies
\* are followed by the backtracking search when they stall).
C1_ReturnedBoardComplete ==
  (pc = "done" /\ HasKnownCompletion(InputGrid)) => isComplete(board)

\* C2: when the input board has no non-zero digit repeated in a row, column
\* or box, neither has the board of any snapshot nor the live (and finally
\* returned) board.
C2_NoRepeatedDigit ==
  (Started /\ NoRepeat(InputGrid)) =>
    /\ NoRepeat(board)
    /\ \A i \in 1 .. Len(snapshots) : NoRepeat(snapshots[i].board)

\* a finished run on a rule-abiding input in which cells were filled by both
\* placing strategies
C2_Witness ==
  /\ pc = "done"
  /\ NoRepeat(InputGrid)
  /\ \E i \in 1 .. Len(snapshots) : snapshots[i].kind = "Naked Single"
  /\ \E i \in 1 .. Len(snapshots) : snapshots[i].kind = "Hidden Single"

\* C3: for every snapshot i >= 1 that carries removedCandidates, each entry
\* [r, c, d] has d among the candidates of (r, c) in snapshot i - 1 and not
\* among them in snapshot i.
C3_RemovedCandidatesAreRemoved ==
  \A i \in 2 .. Len(snapshots) :
    HasRemoved(snapshots[i]) =>
      \A k \in 1 .. Len(snapshots[i].highlight.removedCandidates) :
        LET e == snapshots[i].highlight.removedCandidates[k]
        IN /\ e[3] \in snapshots[i - 1].candidates[e[1]][e[2]]
           /\ e[3] \notin snapshots[i].candidates[e[1]][e[2]]

\* a finished run with eliminations recorded by a pair, a triple and an X-Wing
C3_Witness ==
  /\ pc = "done"
  /\ \E i \in 2 .. Len(snapshots) :
       /\ HasRemoved(snapshots[i])
       /\ Len(snapshots[i].highlight.removedCandidates) > 1
       /\ snapshots[i].kind \in {"Naked Triple", "Hidden Pair", "X-Wing"}

\* C5: for consecutive snapshots i, i + 1 the candidates of every cell in
\* snapshot i + 1 are a subset of its candidates in snapshot i.
C5_CandidatesOnlyShrink ==
  \A i \in 1 .. (Len(snapshots) - 1) : \A r \in Idx : \A c \in Idx :
    snapshots[i + 1].candidates[r][c] \subseteq snapshots[i].candidates[r][c]

\* a finished run in which several hidden pairs stripped candidates
C5_Witness ==
  /\ pc = "done"
  /\ \E i \in 2 .. (Len(snapshots) - 1) :
       /\ snapshots[i].kind = "Hidden Pair"
       /\ snapshots[i + 1].kind = "Hidden Pair"
       /\ \E r \in Idx : \E c \in Idx :
            snapshots[i + 1].candidates[r][c] # snapshots[i].candidates[r][c]

\* C10: the snapshot list of a call is never empty; its first entry has Kind
\* 'Initial Board', Difficulty 0, no highlight, the input board and
\* buildCandidates(input) as candidates; no later entry has that Kind.
C10_InitialSnapshot ==
  Started =>
    /\ Len(snapshots) >= 1
    /\ snapshots[1].kind = "Initial Board"
    /\ snapshots[1].difficulty = 0
    /\ "highlight" \notin DOMAIN snapshots[1]
    /\ snapshots[1].board = InputGrid
    /\ snapshots[1].candidates = buildCandidates(InputGrid)
    /\ \A i \in 2 .. Len(snapshots) : snapshots[i].kind # "Initial Board"

\* a finished run that appended snapshots after the initial one
C10_Witness == pc = "done" /\ Len(snapshots) > 1 /\ ~isComplete(InputGrid)

\* the positions of the seven strategy lines of applyLogicalStrategies, in
\* source order, and the Kind each strategy gives its snapshots
StrategyPcs ==
  <<"nakedSingles", "nakedPairs", "hiddenSingles", "nakedTriples",
    "hiddenPairs", "boxLineReduction", "xWing">>

StrategyKinds ==
  <<"Naked Single", "Naked Pair", "Hidden Single", "Naked Triple",
    "Hidden Pair", "Box Line Reduction", "X-Wing">>

AtStrategyLine == \E k \in 1 .. Len(StrategyPcs) : pc = StrategyPcs[k]

\* the positions a call of solveSudoku can be at
Positions == {"start", "while", "return", "done", "error"} \cup Range(StrategyPcs)

\* A call that has not returned goes on to its next statement.  Every step
\* of Next moves pc (C6_Step), and a step is possible wherever the call has
\* not ended, so fairness is stated on the move of pc.
Advance == pc \notin {"done", "error"} /\ pc' \in Positions \ {pc}

FairSpec == Spec /\ WF_pc(Advance)

FillsCell == \E r \in Idx : \E c \in Idx : board[r][c] = 0 /\ board'[r][c] # 0

RemovesCandidate ==
  \E r \in Idx : \E c \in Idx :
    candidates'[r][c] # candidates[r][c] /\ candidates'[r][c] \subseteq candidates[r][c]

C6_Step ==
  /\ (AtStrategyLine /\ ~changed /\ changed') => (FillsCell \/ RemovesCandidate)
  /\ (pc = "while" /\ ~changed) => pc' = "return"
  /\ pc = "return" => pc' = "done"
  /\ pc' \in Positions \ {pc}

\* C6: applyLogicalStrategies terminates for every input board and options:
\* a strategy that reports a change has filled an empty cell or removed a
\* candidate, the loop is left at the first pass in which no strategy reports
\* a change, and the call then returns.  (A call whose string argument is
\* refused ends before applyLogicalStrategies is entered.)
C6_Terminates == <>(pc \in {"done", "error"}) /\ [][C6_Step]_vars

\* a run that made progress, stalled with empty cells left, and returned
C6_Witness == pc = "done" /\ ~changed /\ Len(snapshots) > 1 /\ ~isComplete(board)

C7_Step ==
  /\ (pc = "while" /\ changed) => pc' = "nakedSingles"
  /\ \A k \in 1 .. Len(StrategyPcs) :
       pc = StrategyPcs[k] =>
         /\ pc' = IF k < Len(StrategyPcs) THEN StrategyPcs[k + 1] ELSE "while"
         /\ changed => (changed' /\ UNCHANGED <<board, candidates, snapshots>>)
         /\ Len(snapshots') >= Len(snapshots)
         /\ SubSeq(snapshots', 1, Len(snapshots)) = snapshots
         /\ \A i \in (Len(snapshots) + 1) .. Len(snapshots') :
              snapshots'[i].kind = StrategyKinds[k]
         /\ Len(snapshots') > Len(snapshots) => changed'
  /\ (~AtStrategyLine /\ pc # "start") => UNCHANGED <<board, candidates, snapshots>>

\* C7: within an iteration the strategies are tried in the fixed order Naked
\* Singles, Naked Pairs, Hidden Singles, Naked Triples, Hidden Pairs, Box
\* Line Reduction, X-Wing; once one reports a change no later strategy runs in
\* that iteration, so all snapshots appended in an iteration have one Kind;
\* the next iteration starts again at Naked Singles.
C7_OneStrategyPerIteration == [][C7_Step]_vars

\* Naked Pairs reported a change and Hidden Singles, reached next in the same
\* iteration, would act if it were run
C7_Witness ==
  /\ pc = "hiddenSingles"
  /\ changed
  /\ applyHiddenSingles(Game, options).ret

OptionFlags ==
  <<[flag |-> "nakedSingles", kind |-> "Naked Single", variant |-> ""],
    [flag |-> "nakedPairs", kind |-> "Naked Pair", variant |-> ""],
    [flag |-> "nakedPairsRows", kind |-> "Naked Pair", variant |-> "Row"],
    [flag |-> "nakedPairsCols", kind |-> "Naked Pair", variant |-> "Column"],
    [flag |-> "nakedPairsBoxes", kind |-> "Naked Pair", variant |-> "Box"],
    [flag |-> "hiddenSingles", kind |-> "Hidden Single", variant |-> ""],
    [flag |-> "hiddenSinglesRows", kind |-> "Hidden Single", variant |-> "Row"],
    [flag |-> "hiddenSinglesCols", kind |-> "Hidden Single", variant |-> "Column"],
    [flag |-> "hiddenSinglesBoxes", kind |-> "Hidden Single", variant |-> "Box"],
    [flag |-> "nakedTriples", kind |-> "Naked Triple", variant |-> ""],
    [flag |-> "nakedTriplesRows", kind |-> "Naked Triple", variant |-> "Row"],
    [flag |-> "nakedTriplesCols", kind |-> "Naked Triple", variant |-> "Column"],
    [flag |-> "nakedTriplesBoxes", kind |-> "Naked Triple", variant |-> "Box"],
    [flag |-> "hiddenPairs", kind |-> "Hidden Pair", variant |-> ""],
    [flag |-> "hiddenPairsRows", kind |-> "Hidden Pair", variant |-> "Row"],
    [flag |-> "hiddenPairsCols", kind |-> "Hidden Pair", variant |-> "Column"],
    [flag |-> "hiddenPairsBoxes", kind |-> "Hidden Pair", variant |-> "Box"],
    [flag |-> "boxLineReduction", kind |-> "Box Line Reduction", variant |-> ""],
    [flag |-> "boxLineReductionRows", kind |-> "Box Line Reduction", variant |-> "Row"],
    [flag |-> "boxLineReductionCols", kind |-> "Box Line Reduction", variant |-> "Column"],
    [flag |-> "xWing", kind |-> "X-Wing", variant |-> ""],
    [flag |-> "xWingRows", kind |-> "X-Wing", variant |-> "Row"],
    [flag |-> "xWingCols", kind |-> "X-Wing", variant |-> "Column"]>>

\* a flag set to false: no snapshot of its Kind (and Variant, for a sub-flag)
C9_DisabledSilent ==
  \A f \in 1 .. Len(OptionFlags) :
    IsFalse(options, OptionFlags[f].flag) =>
      \A i \in 1 .. Len(snapshots) :
        ~(/\ snapshots[i].kind = OptionFlags[f].kind
          /\ (OptionFlags[f].variant = "" \/ snapshots[i].variant = OptionFlags[f].variant))

\* what the strategy tried at position k does when called with opts
StrategyResult(k, game, opts) ==
  CASE k = 1 -> applyNakedSingles(game, opts)
    [] k = 2 -> applyNakedPairs(game, opts)
    [] k = 3 -> applyHiddenSingles(game, opts)
    [] k = 4 -> applyNakedTriples(game, opts)
    [] k = 5 -> applyHiddenPairs(game, opts)
    [] k = 6 -> applyBoxLineReduction(game, opts)
    [] k = 7 -> applyXWing(game, opts)

\* flags absent or true: the strategy does what it does without options
C9_EnabledStep ==
  \A k \in 1 .. Len(StrategyPcs) :
    (/\ pc = StrategyPcs[k]
     /\ ~changed
     /\ \A f \in 1 .. Len(OptionFlags) :
          OptionFlags[f].kind = StrategyKinds[k] => NotFalse(options, OptionFlags[f].flag))
      => LET res == StrategyResult(k, Game, <<>>)
         IN /\ board' = res.game.board
            /\ candidates' = res.game.candidates
            /\ snapshots' = res.game.snapshots
            /\ changed' = res.ret

\* C9: a strategy whose parent flag is false appends no snapshot of its
\* Kind; when only a sub-flag (...Rows, ...Cols, ...Boxes) is false no
\* snapshot of that Kind has the Variant 'Row', 'Column' or 'Box' it governs;
\* a strategy all of whose flags are absent or true runs as it does without
\* options.
C9_OptionGating == []C9_DisabledSilent /\ [][C9_EnabledStep]_vars

\* nakedPairsCols is false and Naked Pairs is tried in a state where, without
\* options, it would append a Naked Pair snapshot of Variant 'Column'
C9_Witness ==
  /\ pc = "nakedPairs"
  /\ ~changed
  /\ IsFalse(options, "nakedPairsCols")
  /\ LET s == applyNakedPairs(Game, <<>>).game.snapshots
     IN Len(s) > Len(snapshots) /\ s[Len(s)].variant = "Column"

\* the characters stringToBoard is documented to accept
PuzzleChars == {".", "0", "1", "2", "3", "4", "5", "6", "7", "8", "9"}

\* the argument is an 81-character string with a character outside PuzzleChars
HasInvalidCharacter ==
  /\ IsString(startingBoard)
  /\ Len(startingBoard) = 81
  /\ \E k \in 1 .. 81 : startingBoard[k] \notin PuzzleChars

\* C11: an input string with a character other than '.', '0', '1'..'9' at
\* one of its 81 positions makes the call raise an error: no solve starts (no
\* board, candidate grid or snapshot comes to exist) and nothing is returned.
C11_InvalidCharacterRaises ==
  HasInvalidCharacter =>
    /\ pc \in {"start", "error"}
    /\ board = <<>>
    /\ candidates = <<>>
    /\ snapshots = <<>>

WrongLength == IsString(startingBoard) /\ Len(startingBoard) # 81

C12_Refused ==
  WrongLength =>
    /\ pc \in {"start", "error"}
    /\ board = <<>>
    /\ candidates = <<>>
    /\ snapshots = <<>>

C12_Step == (pc = "start" /\ WrongLength) => pc' = "error"

\* C12: an input string whose length is not 81 makes the call raise an
\* error, and it does so before any candidate grid is built or any snapshot
\* is created: the only step of such a call is the one that ends it in the
\* exception.
C12_WrongLengthRaises == []C12_Refused /\ [][C12_Step]_vars

\* calls with an 80-character and an 82-character string have been refused
C12_Witness ==
  /\ pc = "error"
  /\ IsString(startingBoard)
  /\ Len(startingBoard) \in {80, 82}
  /\ snapshots = <<>>

\* in grid b with candidate grid cand every filled cell has its digit as its
\* only candidate
FilledCellsFixed(b, cand) ==
  \A r \in Idx : \A c \in Idx : b[r][c] # 0 => cand[r][c] = {b[r][c]}

\* C13: in every snapshot and in the live (finally returned) state the
\* candidate set of every filled cell holding digit d is exactly {d}, after
\* Naked Single and Hidden Single placements alike.
C13_FilledCellHasOneCandidate ==
  /\ Started => FilledCellsFixed(board, candidates)
  /\ \A i \in 1 .. Len(snapshots) :
       FilledCellsFixed(snapshots[i].board, snapshots[i].candidates)

\* the cells that share a row, a column or a box with (r, c)
Peers(r, c) ==
  {p \in Idx \X Idx :
     /\ p # <<r, c>>
     /\ \/ p[1] = r
        \/ p[2] = c
        \/ (p[1] \div BOX_SIZE = r \div BOX_SIZE /\ p[2] \div BOX_SIZE = c \div BOX_SIZE)}

\* no empty cell of b has among its candidates a digit that a peer holds
NoPlacedPeerDigit(b, cand) ==
  \A r \in Idx : \A c \in Idx :
    b[r][c] = 0 => \A p \in Peers(r, c) : b[p[1]][p[2]] \notin cand[r][c]

\* C14: in every snapshot and in the live (finally returned) state, the
\* candidate set of every empty cell contains no digit that is placed in the
\* cell's row, column or box.
C14_NoPlacedDigitAmongCandidates ==
  /\ Started => NoPlacedPeerDigit(board, candidates)
  /\ \A i \in 1 .. Len(snapshots) :
       NoPlacedPeerDigit(snapshots[i].board, snapshots[i].candidates)

\* a returned state in which a cell filled during the solve has a peer that
\* is still empty and still has candidates
C14_Witness ==
  /\ pc = "done"
  /\ \E r \in Idx : \E c \in Idx :
       /\ snapshots[1].board[r][c] = 0
       /\ board[r][c] # 0
       /\ \E p \in Peers(r, c) : board[p[1]][p[2]] = 0 /\ candidates[p[1]][p[2]] # {}

\* every cell filled in grid a holds the same digit in grid b
KeepsFilledCells(a, b) ==
  \A r \in Idx : \A c \in Idx : a[r][c] # 0 => b[r][c] = a[r][c]

\* C15: a filled cell is never reassigned: a cell that is non-zero in the
\* input or in some snapshot holds the same digit in every later snapshot
\* and in the live (finally returned) board.  (Stated for neighbours in the
\* sequence input, snapshot 1, snapshot 2, ..., live board; equality of
\* digits carries it to every later entry.)
C15_FilledCellsKept ==
  Started =>
    /\ KeepsFilledCells(InputGrid, snapshots[1].board)
    /\ \A i \in 1 .. (Len(snapshots) - 1) :
         KeepsFilledCells(snapshots[i].board, snapshots[i + 1].board)
    /\ KeepsFilledCells(snapshots[Len(snapshots)].board, board)

\* a returned board in which cells were filled by Naked Singles and by
\* Hidden Singles next to the givens of the input
C15_Witness ==
  /\ pc = "done"
  /\ \E r \in Idx : \E c \in Idx : InputGrid[r][c] # 0
  /\ \E i \in 2 .. Len(snapshots) : snapshots[i].kind = "Naked Single"
  /\ \E i \in 2 .. (Len(snapshots) - 1) : snapshots[i].kind = "Hidden Single"

C16_Step ==
  /\ Len(snapshots') >= Len(snapshots)
  /\ \A i \in 1 .. Len(snapshots) : snapshots'[i] = snapshots[i]

\* C16: the snapshot list is append-only: no step removes or reorders
\* entries, and an entry once appended keeps its board, candidates, Kind,
\* Variant, Difficulty and Highlight whatever later steps do.
C16_SnapshotsAppendOnly == [][C16_Step]_vars

\* a returned list in which an entry with removed candidates is followed by
\* entries whose board and candidates differ from its own
C16_Witness ==
  /\ pc = "done"
  /\ \E i \in 2 .. (Len(snapshots) - 1) :
       /\ HasRemoved(snapshots[i])
       /\ snapshots[Len(snapshots)].board # snapshots[i].board
       /\ snapshots[Len(snapshots)].candidates # snapshots[i].candidates

\* the Difficulty that goes with each Kind
DifficultyOf ==
  [k \in {"Initial Board", "Naked Single", "Naked Pair", "Hidden Single",
          "Naked Triple", "Hidden Pair", "Box Line Reduction", "X-Wing"} |->
     CASE k = "Initial Board" -> 0
       [] k = "Naked Single" -> 1
       [] k = "Naked Pair" -> 2
       [] k = "Hidden Single" -> 3
       [] k = "Naked Triple" -> 4
       [] k = "Hidden Pair" -> 5
       [] k = "Box Line Reduction" -> 5
       [] k = "X-Wing" -> 6]

\* C17: every snapshot has one of the eight Kinds, and its Difficulty is the
\* one that goes with its Kind: Initial Board 0, Naked Single 1, Naked Pair
\* 2, Hidden Single 3, Naked Triple 4, Hidden Pair 5, Box Line Reduction 5,
\* X-Wing 6; so no Difficulty lies outside 0..6.
C17_DifficultyByKind ==
  \A i \in 1 .. Len(snapshots) :
    /\ snapshots[i].kind \in DOMAIN DifficultyOf
    /\ snapshots[i].difficulty = DifficultyOf[snapshots[i].kind]
    /\ snapshots[i].difficulty \in 0 .. 6

\* a returned list holding the two Kinds of Difficulty 5 next to the Kinds
\* of Difficulty 0, 1 and 3
C17_Witness ==
  /\ pc = "done"
  /\ \A k \in {"Initial Board", "Naked Single", "Hidden Single", "Hidden Pair",
               "Box Line Reduction"} :
       \E i \in 1 .. Len(snapshots) : snapshots[i].kind = k

\* SolverOptions that leave only Naked Singles and Hidden Singles switched on
SinglesOnly ==
  [nakedPairs |-> FALSE, nakedTriples |-> FALSE, hiddenPairs |-> FALSE,
   boxLineReduction |-> FALSE, xWing |-> FALSE]

\* b can be completed by placing Naked Singles and Hidden Singles alone
CompletableBySingles(b) ==
  isComplete(applyLogicalStrategies(
               [board |-> b, candidates |-> buildCandidates(b), snapshots |-> <<>>],
               SinglesOnly).board)

KindsAfterInitial == {snapshots[i].kind : i \in 2 .. Len(snapshots)}

\* C18 as stated: for a puzzle that Naked Singles and Hidden Singles alone
\* complete, the call with default options returns a complete board and
\* every snapshot after the initial one is a 'Naked Single' or a 'Hidden
\* Single'.
C18_OnlySinglesSnapshots ==
  (pc = "done" /\ DOMAIN options = {} /\ CompletableBySingles(InputGrid))
    => /\ isComplete(board)
       /\ KindsAfterInitial \subseteq {"Naked Single", "Hidden Single"}

\* C18: for a puzzle that Naked Singles and Hidden Singles alone complete,
\* the call with default options returns a complete board and every snapshot
\* after the initial one is a 'Naked Single', a 'Naked Pair' or a 'Hidden
\* Single' (Naked Pairs is tried before Hidden Singles; no Naked Triple,
\* Hidden Pair, Box Line Reduction or X-Wing snapshot is appended).
C18_SinglesAndNakedPairsSnapshots ==
  (pc = "done" /\ DOMAIN options = {} /\ CompletableBySingles(InputGrid))
    => /\ isComplete(board)
       /\ KindsAfterInitial \subseteq {"Naked Single", "Naked Pair", "Hidden Single"}

\* a default call has returned for a puzzle that the singles alone complete,
\* with a Naked Pair snapshot in its list
C18_Witness ==
  /\ pc = "done"
  /\ DOMAIN options = {}
  /\ "Naked Pair" \in KindsAfterInitial
  /\ isComplete(board)
  /\ CompletableBySingles(InputGrid)

\* b is a board: every cell is 0 or a digit
IsBoard(b) == \A r \in Idx : \A c \in Idx : b[r][c] \in 0 .. 9

\* the digits the rules allow in cell (r, c) of b
ValidDigits(b, r, c) == {d \in Digits : isValid(b, r, c, d)}

\* two empty cells that see each other admit one and the same digit and no
\* other: b has no valid completion
HasTwinCells(b) ==
  \E r \in Idx : \E c \in Idx :
    /\ b[r][c] = 0
    /\ Cardinality(ValidDigits(b, r, c)) = 1
    /\ \E p \in Peers(r, c) :
         b[p[1]][p[2]] = 0 /\ ValidDigits(b, p[1], p[2]) = ValidDigits(b, r, c)

\* the input is a board without a repeated digit
RuleAbidingInput == ~IsString(startingBoard) /\ IsBoard(InputGrid) /\ NoRepeat(InputGrid)

C19_Returned ==
  /\ ~IsString(startingBoard) => pc # "error"
  /\ (pc = "done" /\ RuleAbidingInput /\ isComplete(board))
       => /\ \A r \in Idx : \A c \in Idx : board[r][c] \in Digits
          /\ NoRepeat(board)
          /\ KeepsFilledCells(InputGrid, board)
  /\ (pc = "done" /\ RuleAbidingInput /\ HasTwinCells(InputGrid)) => ~isComplete(board)

C19_Step ==
  Started =>
    \A r \in Idx : \A c \in Idx :
      (board[r][c] = 0 /\ candidates[r][c] = {}) => board'[r][c] = 0

\* C19: for an input board with no repeated digit, an empty cell and no
\* valid completion the call returns normally and the returned board still
\* has an empty cell, and an empty cell whose candidate set has become empty
\* is never filled.  (A call on a board never ends in an exception; a board
\* returned complete for a rule-abiding input is a valid completion of it,
\* so an input that has none comes back with an empty cell; inputs with two
\* cells that exclude each other are such inputs.)
C19_UnsolvableStaysIncomplete == []C19_Returned /\ [][C19_Step]_vars

\* a call has returned for a rule-abiding input without a completion, and a
\* cell that had a candidate at the start is empty with no candidate left
C19_Witness ==
  /\ pc = "done"
  /\ RuleAbidingInput
  /\ HasTwinCells(InputGrid)
  /\ \E r \in Idx : \E c \in Idx :
       /\ board[r][c] = 0
       /\ candidates[r][c] = {}
       /\ snapshots[1].candidates[r][c] # {}

\* in unit u (a sequence of cells) of grid b, digit d is not placed and is a
\* candidate of exactly one empty cell
HasHiddenSingle(b, cand, u, d) ==
  /\ \A k \in 1 .. Len(u) : b[u[k][1]][u[k][2]] # d
  /\ Cardinality({k \in 1 .. Len(u) :
                    b[u[k][1]][u[k][2]] = 0 /\ d \in cand[u[k][1]][u[k][2]]}) = 1

C20_SecondRun(res) == ~res.ret /\ res.game = Game

\* C20: when the call returns the logical phase is at a fixpoint: a further
\* pass of the scheduler over the returned game with the same options
\* reports no change, changes no cell and no candidate set and appends no
\* snapshot, so that running applyLogicalStrategies again returns the game
\* as it is; with default options the returned state has no empty cell with
\* exactly one candidate, and no unit in which a digit that is not placed
\* is a candidate of exactly one empty cell.
C20_FixpointAtReturn ==
  pc = "done" =>
    /\ C20_SecondRun(applyLogicalStrategiesPass(Game, options))
    /\ applyLogicalStrategies(Game, options) = Game
    /\ DOMAIN options = {} =>
         /\ \A r \in Idx : \A c \in Idx :
              board[r][c] = 0 => Cardinality(candidates[r][c]) # 1
         /\ \A u \in DOMAIN Units : \A d \in Digits :
              ~HasHiddenSingle(board, candidates, Units[u], d)

\* a default call has returned a board with empty cells after naked pairs,
\* hidden singles and a later strategy have acted
C20_Witness ==
  /\ pc = "done"
  /\ DOMAIN options = {}
  /\ ~isComplete(board)
  /\ {"Naked Pair", "Hidden Single", "Naked Triple"} \subseteq KindsAfterInitial
  /\ \E r \in Idx : \E c \in Idx : board[r][c] = 0 /\ Cardinality(candidates[r][c]) > 1

\* the digits placed in the cells that share a row, a column or a box with
\* (r, c)
PlacedAround(b, r, c) == {b[p[1]][p[2]] : p \in Peers(r, c)}

\* what the candidate grid of board b is to be: {d} for a cell filled with
\* d, the digits not placed around it for an empty cell
CandidatesByContent(b) ==
  [r \in Idx |-> [c \in Idx |->
     IF b[r][c] # 0 THEN {b[r][c]} ELSE Digits \ PlacedAround(b, r, c)]]

\* the loop of buildCandidates with the cells lo .. hi - 1 visited from the
\* last to the first: the upper half of the range runs before the lower
RECURSIVE BuildBackwards(_, _, _, _)
BuildBackwards(b, cs, lo, hi) ==
  IF hi - lo > 1
  THEN LET mid == (lo + hi) \div 2
           upper == BuildBackwards(b, cs, mid, hi)
       IN IF upper = upper THEN BuildBackwards(b, upper, lo, mid) ELSE upper
  ELSE LET row == RowOf(lo)
           col == ColOf(lo)
           val == b[row][col]
       IN IF val # 0
          THEN eliminateFromPeers(b, [cs EXCEPT ![row][col] = {val}], row, col, val)
          ELSE cs

\* the call has just built its game from the input
JustStarted == pc = "while" /\ changed /\ Len(snapshots) = 1

\* C21: buildCandidates is a function of the board's content: a cell filled
\* with d gets {d}, an empty cell gets 1..9 less the digits placed in its
\* row, column and box; visiting the filled cells in another order gives the
\* same grid; and the board handed in is the board afterwards.
C21_BuildCandidatesByContent ==
  JustStarted =>
    /\ candidates = CandidatesByContent(InputGrid)
    /\ candidates = BuildBackwards(InputGrid, [r \in Idx |-> [c \in Idx |-> Digits]], 0, NumCells)
    /\ board = InputGrid

\* candidates have been built for a board with givens, on which some empty
\* cell lost some but not all of its candidates
C21_Witness ==
  /\ JustStarted
  /\ \E r \in Idx : \E c \in Idx : board[r][c] \in Digits
  /\ \E r \in Idx : \E c \in Idx :
       board[r][c] = 0 /\ Cardinality(candidates[r][c]) \in 2 .. 8

\* candidate grid cand after digit d, just placed in cell, has been removed
\* from the peers of cell that are empty in b
WithoutAround(b, cand, cell, d) ==
  [r \in Idx |-> [c \in Idx |->
     IF <<r, c>> \in Peers(cell[1], cell[2]) /\ b[r][c] = 0
     THEN cand[r][c] \ {d}
     ELSE cand[r][c]]]

\* the snapshot sn records the placement of a naked single in the grids of
\* before: one cell, empty and with one candidate there, now holds that
\* candidate, which its empty peers have lost
IsNakedSinglePlacement(before, sn) ==
  /\ sn.kind = "Naked Single"
  /\ sn.difficulty = 1
  /\ DOMAIN sn.highlight = {"blocks"}
  /\ Len(sn.highlight.blocks) = 1
  /\ LET cell == sn.highlight.blocks[1]
         d == sn.board[cell[1]][cell[2]]
     IN /\ before.board[cell[1]][cell[2]] = 0
        /\ before.candidates[cell[1]][cell[2]] = {d}
        /\ sn.variant = ToString(d)
        /\ sn.board = [before.board EXCEPT ![cell[1]][cell[2]] = d]
        /\ sn.candidates = WithoutAround(sn.board, before.candidates, cell, d)

\* position of the cell of a Naked Single snapshot in the row-major scan
ScanIndex(sn) == sn.highlight.blocks[1][1] * BOARD_SIZE + sn.highlight.blocks[1][2]

C22_Step ==
  (pc = "nakedSingles" /\ ~changed /\ NotFalse(options, "nakedSingles")) =>
    LET first == Len(snapshots)
        n == Len(snapshots') - first
        \* the grids after the first j placements of the call
        After(j) == IF j = 0 THEN [board |-> board, candidates |-> candidates]
                    ELSE snapshots'[first + j]
        \* how many placements the scan had made when it reached cell k
        MadeBefore(k) == Cardinality({j \in 1 .. n : ScanIndex(snapshots'[first + j]) < k})
    IN /\ n >= 0
       /\ changed' = (n > 0)
       /\ board' = After(n).board
       /\ candidates' = After(n).candidates
       /\ \A j \in 1 .. n :
            /\ IsNakedSinglePlacement(After(j - 1), snapshots'[first + j])
            /\ j > 1 => ScanIndex(snapshots'[first + j]) > ScanIndex(snapshots'[first + j - 1])
       /\ \A k \in 0 .. (NumCells - 1) :
            board'[RowOf(k)][ColOf(k)] = 0 =>
              Cardinality(After(MadeBefore(k)).candidates[RowOf(k)][ColOf(k)]) # 1

\* C22: one call of applyNakedSingles scans the 81 cells in row-major order
\* to the end: each empty cell with exactly one candidate when the scan
\* reaches it is filled with that digit, the digit leaves its empty peers,
\* one snapshot (Kind 'Naked Single', Difficulty 1) is appended per
\* placement, and the call returns true exactly when it placed something.
C22_NakedSinglesFullScan == [][C22_Step]_vars

\* a call has placed two singles, the second in a cell that had several
\* candidates until the first placement of the same scan
C22_Witness ==
  /\ pc = "nakedPairs"
  /\ changed
  /\ Len(snapshots) >= 3
  /\ LET last == snapshots[Len(snapshots)]
         prev == snapshots[Len(snapshots) - 1]
         base == snapshots[Len(snapshots) - 2]
     IN /\ last.kind = "Naked Single"
        /\ prev.kind = "Naked Single"
        /\ ScanIndex(last) > ScanIndex(prev)
        /\ Cardinality(base.candidates[last.highlight.blocks[1][1]][last.highlight.blocks[1][2]]) > 1

\* The places applyHiddenSingles looks at, numbered in the order it looks:
\* h = 81 * category + 9 * unit + (digit - 1), the categories being 0 boxes,
\* 1 rows, 2 columns, the units of a category in index order.
HiddenSingleCategory(h) == h \div 81
HiddenSingleDigit(h) == (h % 9) + 1
HiddenSingleUnit(h) ==
  LET unit == (h % 81) \div 9
  IN CASE HiddenSingleCategory(h) = 0 -> Units[18 + unit]
       [] HiddenSingleCategory(h) = 1 -> Units[unit]
       [] HiddenSingleCategory(h) = 2 -> Units[9 + unit]

HiddenSingleVariant(h) ==
  CASE HiddenSingleCategory(h) = 0 -> "Box"
    [] HiddenSingleCategory(h) = 1 -> "Row"
    [] HiddenSingleCategory(h) = 2 -> "Column"

\* the category of place h is not switched off in opts
HiddenSingleCategoryOn(opts, h) ==
  CASE HiddenSingleCategory(h) = 0 -> NotFalse(opts, "hiddenSinglesBoxes")
    [] HiddenSingleCategory(h) = 1 -> NotFalse(opts, "hiddenSinglesRows")
    [] HiddenSingleCategory(h) = 2 -> NotFalse(opts, "hiddenSinglesCols")

\* the places at which grids b, cand show a hidden single
HiddenSingleHits(b, cand, opts) ==
  {h \in 0 .. 242 :
     /\ HiddenSingleCategoryOn(opts, h)
     /\ HasHiddenSingle(b, cand, HiddenSingleUnit(h), HiddenSingleDigit(h))}

\* the step places the hidden single of place h and appends its snapshot
PlacesHiddenSingle(h) ==
  LET u == HiddenSingleUnit(h)
      d == HiddenSingleDigit(h)
      k == CHOOSE i \in 1 .. Len(u) :
             board[u[i][1]][u[i][2]] = 0 /\ d \in candidates[u[i][1]][u[i][2]]
      sn == snapshots'[Len(snapshots')]
  IN /\ Len(snapshots') = Len(snapshots) + 1
     /\ board' = [board EXCEPT ![u[k][1]][u[k][2]] = d]
     /\ candidates' = WithoutAround(board', candidates, u[k], d)
     /\ sn.kind = "Hidden Single"
     /\ sn.difficulty = 3
     /\ sn.variant = HiddenSingleVariant(h)
     /\ sn.highlight.blocks = << u[k] >>
     /\ sn.board = board'
     /\ sn.candidates = candidates'

C23_Found(hits) ==
  IF hits = {}
  THEN /\ changed' = FALSE
       /\ UNCHANGED <<board, candidates, snapshots>>
  ELSE /\ changed' = TRUE
       /\ PlacesHiddenSingle(CHOOSE h \in hits : \A g \in hits : h <= g)

C23_Step ==
  (pc = "hiddenSingles" /\ ~changed /\ NotFalse(options, "hiddenSingles")) =>
    C23_Found(HiddenSingleHits(board, candidates, options))

\* C23: a call of applyHiddenSingles that returns true fills exactly one
\* cell and appends exactly one snapshot (Kind 'Hidden Single', Difficulty
\* 3, Variant 'Box', 'Row' or 'Column'); the placement is the first hit in
\* the order boxes, rows, columns; the digit was not placed in the unit and
\* the cell was the unit's only empty cell with the digit as a candidate.  A
\* call that returns false changes nothing.
C23_HiddenSinglesFirstHit == [][C23_Step]_vars

\* a call has placed a hidden single found in a box while a row showed one
\* too
C23_Witness ==
  /\ pc = "nakedTriples"
  /\ changed
  /\ snapshots[Len(snapshots)].kind = "Hidden Single"
  /\ snapshots[Len(snapshots)].variant = "Box"
  /\ \E h \in HiddenSingleHits(snapshots[Len(snapshots) - 1].board,
                               snapshots[Len(snapshots) - 1].candidates, options) :
       HiddenSingleCategory(h) = 1

\* the candidate sets of the cells c1 and c2 together hold exactly two digits
UnionOfTwo(cand, c1, c2) ==
  Cardinality(cand[c1[1]][c1[2]] \cup cand[c2[1]][c2[2]]) = 2

\* the cells c1 and c2 have the same candidate set, of exactly two digits
SameTwo(cand, c1, c2) ==
  /\ Cardinality(cand[c1[1]][c1[2]]) = 2
  /\ cand[c1[1]][c1[2]] = cand[c2[1]][c2[2]]

\* the units applyNakedPairs looks at under opts
NakedPairUnits(opts) ==
  {u \in 0 .. 26 :
     IF u < 9 THEN NotFalse(opts, "nakedPairsRows")
     ELSE IF u < 18 THEN NotFalse(opts, "nakedPairsCols")
     ELSE NotFalse(opts, "nakedPairsBoxes")}

\* the unit a snapshot highlights
UnitOfSnapshot(sn) ==
  CASE sn.variant = "Row" -> sn.highlight.rows[1]
    [] sn.variant = "Column" -> 9 + sn.highlight.cols[1]
    [] sn.variant = "Box" -> 18 + sn.highlight.boxes[1][1] * BOX_SIZE + sn.highlight.boxes[1][2]

\* the empty cells of unit u other than c1 and c2
OtherEmptyCells(b, u, c1, c2) ==
  {cell \in Range(Units[u]) : cell # c1 /\ cell # c2 /\ b[cell[1]][cell[2]] = 0}

\* A Naked Pairs step, IsPair being the test that makes two cells a pair:
\* a step that returns true has acted on two empty cells of a unit that pass
\* the test, and the other empty cells of the unit have lost the digits of
\* the two cells; a step that returns false has left no unit with two empty
\* cells that pass the test and whose digits another empty cell still holds.
NakedPairsStepWith(IsPair(_, _, _)) ==
  (pc = "nakedPairs" /\ ~changed /\ NotFalse(options, "nakedPairs")) =>
    IF changed'
    THEN LET sn == snapshots'[Len(snapshots')]
             c1 == sn.highlight.blocks[1]
             c2 == sn.highlight.blocks[2]
             u == UnitOfSnapshot(sn)
             union == candidates[c1[1]][c1[2]] \cup candidates[c2[1]][c2[2]]
         IN /\ sn.kind = "Naked Pair"
            /\ u \in NakedPairUnits(options)
            /\ c1 # c2
            /\ {c1, c2} \subseteq Range(Units[u])
            /\ board[c1[1]][c1[2]] = 0 /\ board[c2[1]][c2[2]] = 0
            /\ IsPair(candidates, c1, c2)
            /\ \A cell \in OtherEmptyCells(board, u, c1, c2) :
                 candidates'[cell[1]][cell[2]] = candidates[cell[1]][cell[2]] \ union
    ELSE \A u \in NakedPairUnits(options) :
           \A c1 \in Range(Units[u]), c2 \in Range(Units[u]) :
             (/\ c1 # c2
              /\ board[c1[1]][c1[2]] = 0 /\ board[c2[1]][c2[2]] = 0
              /\ IsPair(candidates, c1, c2)) =>
               \A cell \in OtherEmptyCells(board, u, c1, c2) :
                 candidates[cell[1]][cell[2]] \cap
                   (candidates[c1[1]][c1[2]] \cup candidates[c2[1]][c2[2]]) = {}

C24_UnionStep == NakedPairsStepWith(UnionOfTwo)

C24_SameTwoStep == NakedPairsStepWith(SameTwo)

PositionIn(u, cell) == CHOOSE k \in 1 .. BOARD_SIZE : Units[u][k] = cell

\* in grids b, cand the cells at positions i < j of unit u are empty, pass the
\* pair test of applyNakedPairs, and another empty cell of the unit holds one
\* of their two digits
ProductivePair(b, cand, u, i, j) ==
  LET c1 == Units[u][i]
      c2 == Units[u][j]
  IN /\ i < j
     /\ b[c1[1]][c1[2]] = 0 /\ b[c2[1]][c2[2]] = 0
     /\ SameTwo(cand, c1, c2)
     /\ \E cell \in OtherEmptyCells(b, u, c1, c2) :
          cand[cell[1]][cell[2]] \cap cand[c1[1]][c1[2]] # {}

\* the productive pairs <<u, i, j>> that applyNakedPairs can meet under opts
ProductivePairs(b, cand, opts) ==
  {p \in NakedPairUnits(opts) \X (1 .. BOARD_SIZE) \X (1 .. BOARD_SIZE) :
     ProductivePair(b, cand, p[1], p[2], p[3])}

\* p comes before q in the scan: rows, then columns, then boxes; in a unit,
\* by the first cell, then by the second
PairBefore(p, q) ==
  \/ p[1] < q[1]
  \/ p[1] = q[1] /\ p[2] < q[2]
  \/ p[1] = q[1] /\ p[2] = q[2] /\ p[3] < q[3]

C25_Step ==
  (pc = "nakedPairs" /\ ~changed /\ NotFalse(options, "nakedPairs") /\ changed') =>
    LET sn == snapshots'[Len(snapshots')]
        u == UnitOfSnapshot(sn)
        c1 == sn.highlight.blocks[1]
        c2 == sn.highlight.blocks[2]
        acted == <<u, PositionIn(u, c1), PositionIn(u, c2)>>
    IN /\ Len(snapshots') = Len(snapshots) + 1
       /\ sn.kind = "Naked Pair"
       /\ sn.difficulty = 2
       /\ sn.board = board' /\ sn.candidates = candidates'
       /\ board' = board
       /\ acted \in ProductivePairs(board, candidates, options)
       /\ \A p \in ProductivePairs(board, candidates, options) :
            p = acted \/ PairBefore(acted, p)
       /\ \A r \in Idx, c \in Idx :
            candidates'[r][c] =
              IF <<r, c>> \in OtherEmptyCells(board, u, c1, c2)
              THEN candidates[r][c] \ candidates[c1[1]][c1[2]]
              ELSE candidates[r][c]

\* C25: a call of applyNakedPairs that returns true appends exactly one
\* snapshot (Kind 'Naked Pair', Difficulty 2) and has acted on the first
\* pair that removes a candidate, in the scan rows, columns, boxes, and on
\* no later one; only the other empty cells of that pair's unit lose
\* candidates, and the board does not change.
C25_NakedPairsFirstPair == [][C25_Step]_vars

\* a call has acted on a pair of a row and returned while a pair of a later
\* unit could still remove a candidate
C25_Witness ==
  /\ pc = "hiddenSingles"
  /\ changed
  /\ snapshots[Len(snapshots)].kind = "Naked Pair"
  /\ snapshots[Len(snapshots)].variant = "Row"
  /\ \E p \in ProductivePairs(board, candidates, options) :
       p[1] > UnitOfSnapshot(snapshots[Len(snapshots)])

\* the units applyNakedTriples looks at under opts
NakedTripleUnits(opts) ==
  {u \in 0 .. 26 :
     IF u < 9 THEN NotFalse(opts, "nakedTriplesRows")
     ELSE IF u < 18 THEN NotFalse(opts, "nakedTriplesCols")
     ELSE NotFalse(opts, "nakedTriplesBoxes")}

\* the triples of positions i < j < k of a unit
PositionTriples ==
  {t \in (1 .. BOARD_SIZE) \X (1 .. BOARD_SIZE) \X (1 .. BOARD_SIZE) :
     t[1] < t[2] /\ t[2] < t[3]}

\* the digits the cells of unit u at the positions t hold between them
TripleUnion(cand, u, t) ==
  UNION {cand[Units[u][t[n]][1]][Units[u][t[n]][2]] : n \in 1 .. 3}

\* the empty cells of unit u outside the positions t
OutsideTriple(b, u, t) ==
  {cell \in Range(Units[u]) :
     /\ b[cell[1]][cell[2]] = 0
     /\ \A n \in 1 .. 3 : cell # Units[u][t[n]]}

\* in grids b, cand the cells at the positions t of unit u are empty, hold
\* exactly three digits between them, and another empty cell of the unit
\* holds one of the three
ProductiveTriple(b, cand, u, t) ==
  /\ \A n \in 1 .. 3 : b[Units[u][t[n]][1]][Units[u][t[n]][2]] = 0
  /\ Cardinality(TripleUnion(cand, u, t)) = 3
  /\ \E cell \in OutsideTriple(b, u, t) :
       cand[cell[1]][cell[2]] \cap TripleUnion(cand, u, t) # {}

\* cand after the digits of the triple t of unit u have left the other empty
\* cells of the unit
WithoutTriple(b, cand, u, t) ==
  [r \in Idx |-> [c \in Idx |->
     IF <<r, c>> \in OutsideTriple(b, u, t)
     THEN cand[r][c] \ TripleUnion(cand, u, t)
     ELSE cand[r][c]]]

\* t comes before s in the scan of a unit
TripleBefore(t, s) ==
  \/ t[1] < s[1]
  \/ t[1] = s[1] /\ t[2] < s[2]
  \/ t[1] = s[1] /\ t[2] = s[2] /\ t[3] < s[3]

\* the positions, in unit u, of the three cells a snapshot highlights
TripleOfSnapshot(sn, u) ==
  <<PositionIn(u, sn.highlight.blocks[1]), PositionIn(u, sn.highlight.blocks[2]),
    PositionIn(u, sn.highlight.blocks[3])>>

\* the step is a call of applyNakedTriples that returns true
NakedTriplesReturnsTrue ==
  pc = "nakedTriples" /\ ~changed /\ NotFalse(options, "nakedTriples") /\ changed'

\* the first unit, in the scan rows, columns, boxes, with a productive triple
FirstTripleUnit ==
  CHOOSE u \in NakedTripleUnits(options) :
    /\ \E t \in PositionTriples : ProductiveTriple(board, candidates, u, t)
    /\ \A v \in NakedTripleUnits(options) :
         v < u => \A t \in PositionTriples : ~ProductiveTriple(board, candidates, v, t)

C26_OneTripleStep ==
  NakedTriplesReturnsTrue =>
    LET sn == snapshots'[Len(snapshots')]
        u == FirstTripleUnit
        first == CHOOSE t \in PositionTriples :
                   /\ ProductiveTriple(board, candidates, u, t)
                   /\ \A s \in PositionTriples :
                        ProductiveTriple(board, candidates, u, s) => s = t \/ TripleBefore(t, s)
    IN /\ Len(snapshots') = Len(snapshots) + 1
       /\ sn.kind = "Naked Triple"
       /\ sn.difficulty = 4
       /\ UnitOfSnapshot(sn) = u
       /\ TripleOfSnapshot(sn, u) = first
       /\ board' = board
       /\ candidates' = WithoutTriple(board, candidates, u, first)

C26_WholeUnitStep ==
  NakedTriplesReturnsTrue =>
    LET base == Len(snapshots)
        n == Len(snapshots') - base
        u == FirstTripleUnit
        \* the candidates after the first j eliminations of the call
        After(j) == IF j = 0 THEN candidates ELSE snapshots'[base + j].candidates
        Acted(j) == TripleOfSnapshot(snapshots'[base + j], u)
        \* how many eliminations the scan had made when it reached triple t
        MadeBefore(t) == Cardinality({j \in 1 .. n : TripleBefore(Acted(j), t)})
    IN /\ n >= 1
       /\ board' = board
       /\ candidates' = After(n)
       /\ \A j \in 1 .. n :
            /\ snapshots'[base + j].kind = "Naked Triple"
            /\ snapshots'[base + j].difficulty = 4
            /\ UnitOfSnapshot(snapshots'[base + j]) = u
            /\ snapshots'[base + j].board = board
            /\ ProductiveTriple(board, After(j - 1), u, Acted(j))
            /\ After(j) = WithoutTriple(board, After(j - 1), u, Acted(j))
            /\ j > 1 => TripleBefore(Acted(j - 1), Acted(j))
       /\ \A t \in PositionTriples :
            (\A j \in 1 .. n : Acted(j) # t) =>
              ~ProductiveTriple(board, After(MadeBefore(t)), u, t)

CellsHolding(b, cand, u, d) ==
  {cell \in Range(Units[u]) : b[cell[1]][cell[2]] = 0 /\ d \in cand[cell[1]][cell[2]]}

\* the snapshot sn was appended for a hidden pair in the grids b, cand: its
\* two digits are candidates of its two cells and of no other empty cell of
\* its unit
IsHiddenPairIn(b, cand, sn) ==
  LET d1 == sn.highlight.candidates[1][3]
      d2 == sn.highlight.candidates[2][3]
  IN /\ d1 < d2
     /\ sn.highlight.blocks[1] # sn.highlight.blocks[2]
     /\ CellsHolding(b, cand, UnitOfSnapshot(sn), d1) = Range(sn.highlight.blocks)
     /\ CellsHolding(b, cand, UnitOfSnapshot(sn), d2) = Range(sn.highlight.blocks)

\* what the snapshot sn of a hidden pair must record, cand being the
\* candidates before it
HiddenPairEffect(cand, sn) ==
  LET d1 == sn.highlight.candidates[1][3]
      d2 == sn.highlight.candidates[2][3]
      pair == Range(sn.highlight.blocks)
      removed == {t \in {<<cell[1], cell[2], d>> : cell \in pair, d \in Digits \ {d1, d2}} :
                    t[3] \in cand[t[1]][t[2]]}
  IN /\ \A cell \in pair : sn.candidates[cell[1]][cell[2]] = {d1, d2}
     /\ Range(sn.highlight.removedCandidates) = removed
     /\ Len(sn.highlight.removedCandidates) = Cardinality(removed)
     /\ \A r \in Idx, c \in Idx :
          <<r, c>> \notin pair => sn.candidates[r][c] = cand[r][c]

\* the example of the claim: cell (0,2) holds {1,2,4}, the pair is {1,4}
C27_Example ==
  LET cs == [r \in Idx |-> [c \in Idx |-> IF <<r, c>> = <<0, 2>> THEN {1, 2, 4} ELSE Digits]]
      s == stripOtherCandidates(cs, 0, 2, <<1, 4>>, <<>>)
  IN /\ s.removedCandidates = << <<0, 2, 2>> >>
     /\ s.candidates[0][2] = {1, 4}
     /\ s.ret

C27_Step ==
  (pc = "hiddenPairs" /\ ~changed /\ NotFalse(options, "hiddenPairs")) =>
    LET base == Len(snapshots)
        n == Len(snapshots') - base
        Before(j) == IF j = 1 THEN candidates ELSE snapshots'[base + j - 1].candidates
    IN /\ C27_Example
       /\ \A j \in 1 .. n :
            /\ snapshots'[base + j].kind = "Hidden Pair"
            /\ snapshots'[base + j].board = board
            /\ IsHiddenPairIn(board, Before(j), snapshots'[base + j]) =>
                 HiddenPairEffect(Before(j), snapshots'[base + j])
       /\ board' = board
       /\ n > 0 => candidates' = snapshots'[base + n].candidates

\* C27: when a Hidden Pair on the digits d1 < d2 fires in a unit (both
\* digits are candidates of the same two empty cells of the unit and of no
\* other empty cell of it), every other digit leaves the two cells, the
\* snapshot's removedCandidates lists exactly the removed (row, col, digit)
\* triples, d1 and d2 stay in both cells and no other cell changes; a pair
\* cell (0,2) with candidates {1,2,4} and the pair {1,4} gives [0,2,2].
C27_HiddenPairStrips == [][C27_Step]_vars

\* a hidden pair has fired and taken candidates from both of its cells
C27_Witness ==
  /\ pc = "boxLineReduction"
  /\ changed
  /\ Len(snapshots) >= 2
  /\ snapshots[Len(snapshots)].kind = "Hidden Pair"
  /\ IsHiddenPairIn(board, snapshots[Len(snapshots) - 1].candidates, snapshots[Len(snapshots)])
  /\ \A cell \in Range(snapshots[Len(snapshots)].highlight.blocks) :
       \E t \in Range(snapshots[Len(snapshots)].highlight.removedCandidates) :
         <<t[1], t[2]>> = cell

\* the units applyHiddenPairs looks at under opts
HiddenPairUnits(opts) ==
  {u \in 0 .. 26 :
     IF u < 9 THEN NotFalse(opts, "hiddenPairsRows")
     ELSE IF u < 18 THEN NotFalse(opts, "hiddenPairsCols")
     ELSE NotFalse(opts, "hiddenPairsBoxes")}

\* place of unit u in the scan of applyHiddenPairs: boxes, rows, columns
HiddenPairScanPlace(u) == IF u >= 18 THEN u - 18 ELSE u + 9

\* 0 for a row, 1 for a column, 2 for a box
CategoryOf(u) == u \div 9

DigitPairs == {p \in Digits \X Digits : p[1] < p[2]}

\* in grids b, cand the two digits of p have the same two places in unit u
SharesTwoPlaces(b, cand, u, p) ==
  /\ Cardinality(CellsHolding(b, cand, u, p[1])) = 2
  /\ CellsHolding(b, cand, u, p[1]) = CellsHolding(b, cand, u, p[2])

\* ... and one of the two cells holds a further digit
ProductiveHiddenPair(b, cand, u, p) ==
  /\ SharesTwoPlaces(b, cand, u, p)
  /\ \E cell \in CellsHolding(b, cand, u, p[1]) : cand[cell[1]][cell[2]] \ {p[1], p[2]} # {}

HasProductiveHiddenPair(b, cand, u) ==
  Len(EmptyCells([board |-> b], Units[u])) >= 2
  /\ \E p \in DigitPairs : ProductiveHiddenPair(b, cand, u, p)

\* the digits of a Hidden Pair snapshot
DigitsOfSnapshot(sn) == <<sn.highlight.candidates[1][3], sn.highlight.candidates[2][3]>>

\* the step is a call of applyHiddenPairs that returns true
HiddenPairsReturnsTrue ==
  pc = "hiddenPairs" /\ ~changed /\ NotFalse(options, "hiddenPairs") /\ changed'

\* the scans of all rows and of all columns, every unit being looked at
\* whatever the earlier units returned
RECURSIVE hiddenPairsRowsWholeCategory(_, _)
hiddenPairsRowsWholeCategory(game, row) ==
  IF row = 9 THEN Result(game, FALSE)
  ELSE LET Rest(res, rest) == Result(rest.game, res.ret \/ rest.ret)
           Continue(res) == Rest(res, hiddenPairsRowsWholeCategory(res.game, row + 1))
       IN Continue(applyHiddenPairsInRow(game, row))

RECURSIVE hiddenPairsColsWholeCategory(_, _)
hiddenPairsColsWholeCategory(game, col) ==
  IF col = 9 THEN Result(game, FALSE)
  ELSE LET Rest(res, rest) == Result(rest.game, res.ret \/ rest.ret)
           Continue(res) == Rest(res, hiddenPairsColsWholeCategory(res.game, col + 1))
       IN Continue(applyHiddenPairsInColumn(game, col))

\* applyHiddenPairs as it would be if a started category were always scanned
\* to its last unit
HiddenPairsByWholeCategories(game, opts) ==
  LET Boxes(g) == IF NotFalse(opts, "hiddenPairsBoxes") THEN hiddenPairsBoxesWholeCategory(g, 0) ELSE Result(g, FALSE)
      Rows(g) == IF NotFalse(opts, "hiddenPairsRows") THEN hiddenPairsRowsWholeCategory(g, 0) ELSE Result(g, FALSE)
      Cols(g) == IF NotFalse(opts, "hiddenPairsCols") THEN hiddenPairsColsWholeCategory(g, 0) ELSE Result(g, FALSE)
      AfterRows(res) == IF res.ret THEN res ELSE Cols(res.game)
      AfterBoxes(res) == IF res.ret THEN res ELSE AfterRows(Rows(res.game))
  IN AfterBoxes(Boxes(game))

C28_WholeCategoryStep ==
  HiddenPairsReturnsTrue =>
    LET whole == HiddenPairsByWholeCategories(Game, options).game
    IN /\ candidates' = whole.candidates
       /\ snapshots' = whole.snapshots

\* C28 (as stated): Hidden Pairs does not short-circuit inside a category:
\* a started category (boxes, then rows, then columns) is scanned to its
\* last unit, and the call returns true only after the first category in
\* which some unit yielded a change has been fully scanned, the following
\* categories not being started.
C28_WholeCategoryScanned == [][C28_WholeCategoryStep]_vars

C28_FirstUnitStep ==
  HiddenPairsReturnsTrue =>
    LET base == Len(snapshots)
        n == Len(snapshots') - base
        u == UnitOfSnapshot(snapshots'[base + 1])
        After(j) == IF j = 0 THEN candidates ELSE snapshots'[base + j].candidates
        Acted(j) == DigitsOfSnapshot(snapshots'[base + j])
        \* how many pairs had fired when the scan of the unit reached p
        MadeBefore(p) ==
          Cardinality({j \in 1 .. n :
                         Acted(j)[1] < p[1] \/ (Acted(j)[1] = p[1] /\ Acted(j)[2] < p[2])})
    IN /\ n >= 1
       /\ board' = board
       /\ candidates' = After(n)
       /\ u \in HiddenPairUnits(options)
       /\ \A v \in HiddenPairUnits(options) :
            HiddenPairScanPlace(v) < HiddenPairScanPlace(u) =>
              ~HasProductiveHiddenPair(board, candidates, v)
       /\ \A j \in 1 .. n :
            /\ snapshots'[base + j].kind = "Hidden Pair"
            /\ snapshots'[base + j].difficulty = 5
            /\ UnitOfSnapshot(snapshots'[base + j]) = u
            /\ SharesTwoPlaces(board, candidates, u, Acted(j))
            /\ j > 1 => MadeBefore(Acted(j)) = j - 1
       /\ \A p \in DigitPairs :
            (SharesTwoPlaces(board, candidates, u, p) /\ \A j \in 1 .. n : Acted(j) # p) =>
              \A cell \in CellsHolding(board, candidates, u, p[1]) :
                After(MadeBefore(p))[cell[1]][cell[2]] \subseteq {p[1], p[2]}
       /\ \A r \in Idx, c \in Idx :
            <<r, c>> \notin Range(Units[u]) => candidates'[r][c] = candidates[r][c]

\* C28 (amended): Hidden Pairs does not short-circuit inside a unit: the
\* call for one box, row or column tries every pair of digits and appends
\* one snapshot for each pair that removes a candidate; applyHiddenPairs
\* returns true right after the first unit (boxes, then rows, then columns)
\* that yielded a change, the later units of the category and the following
\* categories not being looked at.
C28_FirstUnitScanned == [][C28_FirstUnitStep]_vars

\* a call has returned true after a change in one unit while a later unit
\* of the same category still holds a hidden pair that removes a candidate
C28_Witness ==
  /\ pc = "boxLineReduction"
  /\ changed
  /\ snapshots[Len(snapshots)].kind = "Hidden Pair"
  /\ \E v \in HiddenPairUnits(options) :
       /\ CategoryOf(v) = CategoryOf(UnitOfSnapshot(snapshots[Len(snapshots)]))
       /\ v > UnitOfSnapshot(snapshots[Len(snapshots)])
       /\ HasProductiveHiddenPair(board, candidates, v)

\* the lines applyBoxLineReduction looks at under opts: rows 0..8, then
\* columns 9..17
BoxLineUnits(opts) ==
  {u \in 0 .. 17 :
     IF u < 9 THEN NotFalse(opts, "boxLineReductionRows")
     ELSE NotFalse(opts, "boxLineReductionCols")}

\* in grids b, cand the digit d is not placed in line u and the empty cells
\* of the line that hold it number 2 or 3 and lie in box k
LockedInBox(b, cand, u, d, k) ==
  /\ \A cell \in Range(Units[u]) : b[cell[1]][cell[2]] # d
  /\ Cardinality(CellsHolding(b, cand, u, d)) \in {2, 3}
  /\ CellsHolding(b, cand, u, d) \subseteq Range(Units[18 + k])

\* the empty cells of box k outside line u that hold d
BoxLineTargets(b, cand, u, d, k) ==
  CellsHolding(b, cand, 18 + k, d) \ Range(Units[u])

\* the <<line, digit>> at which a reduction removes something
BoxLineHits(b, cand, opts) ==
  {h \in BoxLineUnits(opts) \X Digits :
     \E k \in 0 .. 8 : /\ LockedInBox(b, cand, h[1], h[2], k)
                       /\ BoxLineTargets(b, cand, h[1], h[2], k) # {}}

C29_Step ==
  (pc = "boxLineReduction" /\ ~changed /\ NotFalse(options, "boxLineReduction") /\ changed') =>
    LET sn == snapshots'[Len(snapshots')]
        u == UnitOfSnapshot(sn)
        k == sn.highlight.boxes[1][1] * BOX_SIZE + sn.highlight.boxes[1][2]
        d == sn.highlight.removedCandidates[1][3]
    IN /\ Len(snapshots') = Len(snapshots) + 1
       /\ sn.kind = "Box Line Reduction"
       /\ sn.difficulty = 5
       /\ sn.variant \in {"Row", "Column"}
       /\ sn.board = board' /\ sn.candidates = candidates'
       /\ board' = board
       /\ u \in BoxLineUnits(options)
       /\ LockedInBox(board, candidates, u, d, k)
       /\ <<u, d>> \in BoxLineHits(board, candidates, options)
       /\ \A h \in BoxLineHits(board, candidates, options) :
            u < h[1] \/ (u = h[1] /\ d <= h[2])
       /\ \A r \in Idx, c \in Idx :
            candidates'[r][c] =
              IF <<r, c>> \in BoxLineTargets(board, candidates, u, d, k)
              THEN candidates[r][c] \ {d}
              ELSE candidates[r][c]
       /\ \A cell \in Range(Units[u]) : candidates'[cell[1]][cell[2]] = candidates[cell[1]][cell[2]]

\* C29: Box-Line Reduction fires for a line (rows first, then columns) and
\* a digit not placed in the line only when the empty cells of the line
\* that hold the digit number 2 or 3 and all lie in one box; the digit then
\* leaves only the empty cells of that box outside the line, no cell of the
\* line or outside the box, the board does not change, and a call of
\* applyBoxLineReduction that returns true appends exactly one snapshot
\* (Kind 'Box Line Reduction', Difficulty 5) and returns.
C29_BoxLineReduction == [][C29_Step]_vars

\* a call has fired for a column (no row could), the digit being held by two
\* or three cells of the column
C29_Witness ==
  /\ pc = "xWing"
  /\ changed
  /\ snapshots[Len(snapshots)].kind = "Box Line Reduction"
  /\ snapshots[Len(snapshots)].variant = "Column"
  /\ Len(snapshots[Len(snapshots)].highlight.blocks) \in {2, 3}

\* the digit of an X-Wing snapshot
XWingDigit(sn) == sn.highlight.candidates[1][3]

\* the two lines in which an X-Wing snapshot found its digit confined (rows
\* for the variant 'Row', columns for 'Column') and the two lines it clears
XWingBase(sn) ==
  IF sn.variant = "Row" THEN {sn.highlight.rows[1], sn.highlight.rows[2]}
  ELSE {9 + sn.highlight.cols[1], 9 + sn.highlight.cols[2]}

XWingCover(sn) ==
  IF sn.variant = "Row" THEN {9 + sn.highlight.cols[1], 9 + sn.highlight.cols[2]}
  ELSE {sn.highlight.rows[1], sn.highlight.rows[2]}

CellsOfUnits(us) == UNION {Range(Units[u]) : u \in us}

\* in grids b, cand the X-Wing of sn is there: in each of its two base lines
\* the digit is a candidate of exactly two empty cells, the corners
IsXWingIn(b, cand, sn) ==
  /\ Cardinality(XWingBase(sn)) = 2 /\ Cardinality(XWingCover(sn)) = 2
  /\ Range(sn.highlight.blocks) = CellsOfUnits(XWingBase(sn)) \cap CellsOfUnits(XWingCover(sn))
  /\ \A u \in XWingBase(sn) :
       /\ Cardinality(CellsHolding(b, cand, u, XWingDigit(sn))) = 2
       /\ CellsHolding(b, cand, u, XWingDigit(sn)) \subseteq CellsOfUnits(XWingCover(sn))

\* cand after the X-Wing of sn has cleared its two cover lines, the base
\* lines excepted
WithoutXWing(b, cand, sn) ==
  [r \in Idx |-> [c \in Idx |->
     IF /\ b[r][c] = 0
        /\ <<r, c>> \in CellsOfUnits(XWingCover(sn)) \ CellsOfUnits(XWingBase(sn))
     THEN cand[r][c] \ {XWingDigit(sn)}
     ELSE cand[r][c]]]

\* in grids b, cand some X-Wing of digit d, in rows (orientation 0) or in
\* columns (orientation 1), removes a candidate
HasProductiveXWing(b, cand, d, o) ==
  \E l1 \in Idx, l2 \in Idx :
    /\ l1 < l2
    /\ Cardinality(CellsHolding(b, cand, 9 * o + l1, d)) = 2
    /\ LET cross == IF o = 0
                    THEN {9 + cell[2] : cell \in CellsHolding(b, cand, l1, d)}
                    ELSE {cell[1] : cell \in CellsHolding(b, cand, 9 + l1, d)}
       IN /\ CellsHolding(b, cand, 9 * o + l2, d) =
               Range(Units[9 * o + l2]) \cap CellsOfUnits(cross)
          /\ \E cell \in CellsOfUnits(cross) \ CellsOfUnits({9 * o + l1, 9 * o + l2}) :
               b[cell[1]][cell[2]] = 0 /\ d \in cand[cell[1]][cell[2]]

XWingOrientationOn(opts, o) ==
  IF o = 0 THEN NotFalse(opts, "xWingRows") ELSE NotFalse(opts, "xWingCols")

\* opts with X-Wing switched off
WithoutXWingOption(opts) ==
  [k \in (DOMAIN opts) \cup {"xWing"} |-> IF k = "xWing" THEN FALSE ELSE opts[k]]

\* the other strategies complete the board from the grids b, cand
SolvableWithoutXWing(b, cand, opts) ==
  isComplete(applyLogicalStrategies(
               [board |-> b, candidates |-> cand, snapshots |-> <<>>],
               WithoutXWingOption(opts)).board)

\* the step is a call of applyXWing that returns true
XWingReturnsTrue ==
  pc = "xWing" /\ ~changed /\ NotFalse(options, "xWing") /\ changed'

C30_Step ==
  XWingReturnsTrue =>
    LET base == Len(snapshots)
        n == Len(snapshots') - base
        d == XWingDigit(snapshots'[base + 1])
        o == IF snapshots'[base + 1].variant = "Row" THEN 0 ELSE 1
        After(j) == IF j = 0 THEN candidates ELSE snapshots'[base + j].candidates
    IN /\ n >= 1
       /\ board' = board
       /\ candidates' = After(n)
       /\ XWingOrientationOn(options, o)
       /\ \A e \in Digits, q \in {0, 1} :
            (XWingOrientationOn(options, q) /\ (e < d \/ (e = d /\ q < o))) =>
              ~HasProductiveXWing(board, candidates, e, q)
       /\ \A j \in 1 .. n :
            /\ snapshots'[base + j].kind = "X-Wing"
            /\ snapshots'[base + j].variant = snapshots'[base + 1].variant
            /\ XWingDigit(snapshots'[base + j]) = d
            /\ IsXWingIn(board, After(j - 1), snapshots'[base + j])
            /\ After(j) = WithoutXWing(board, After(j - 1), snapshots'[base + j])
            /\ After(j) # After(j - 1)
       /\ SolvableWithoutXWing(board, After(1), options) => n = 1

\* C30: an X-Wing of digit d in rows fires only for two rows in each of
\* which d is a candidate of exactly two empty cells, in the same two
\* columns; d then leaves only the empty cells of those two columns in the
\* other seven rows, never the four corners (and the same with rows and
\* columns exchanged).  applyXWing tries the digits 1..9 in order, rows
\* before columns for each digit, and returns at the first digit and
\* orientation that removed something, so the X-Wing snapshots of one call
\* have one digit and one orientation; when one X-Wing elimination is enough
\* for the other strategies to complete the grid, the call appends exactly
\* one 'X-Wing' snapshot.
C30_XWing == [][C30_Step]_vars

\* the search only runs with a game that has been built
BacktrackPositions == {"backtrack", "for", "recursed", "backtracked"}

(***************************************************************************)
(* Properties of backtrack                                                 *)
(***************************************************************************)

\* (row, col) is empty in b and every cell before it in row-major order is filled
IsFirstEmpty(b, row, col) ==
  /\ b[row][col] = 0
  /\ \A r \in Idx : \A c \in Idx :
       (r < row \/ (r = row /\ c < col)) => b[r][c] # 0

Ascending(seq) == \A a \in 1 .. Len(seq) : \A z \in (a + 1) .. Len(seq) : seq[a] < seq[z]

\* the call of frame j is between two trial digits, a trial having failed
AfterFailedTrial(j) == j = Len(frames) /\ pc = "for" /\ frames[j].placed

\* C31: backtrack always works on the first empty cell in row-major order and
\* tries that cell's candidate digits in ascending order (the digit under
\* trial is the one the loop position names, and the nested call starts from
\* the board with that digit placed); after every failed trial digit and
\* before the next one, the board is back to its state before the trial and
\* the whole candidate grid equals buildCandidates of that board.
C31_SearchOrderAndUndo ==
  \A j \in 1 .. Len(frames) :
    LET f == frames[j]
    IN /\ IsFirstEmpty(f.entryBoard, f.row, f.col)
       /\ Ascending(f.possibleDigits)
       /\ Range(f.possibleDigits) = f.entryCandidates[f.row][f.col]
       /\ j < Len(frames) =>
            /\ f.i \in 1 .. Len(f.possibleDigits)
            /\ frames[j + 1].entryBoard =
                 [f.entryBoard EXCEPT ![f.row][f.col] = f.possibleDigits[f.i]]
       /\ AfterFailedTrial(j) =>
            /\ board = f.entryBoard
            /\ candidates = buildCandidates(board)

\* a second trial digit is about to be tried after the first one failed, in
\* a call nested in another one
C31_Witness ==
  /\ Len(frames) >= 2
  /\ AfterFailedTrial(Len(frames))
  /\ Top.i = 2
  /\ Len(Top.possibleDigits) >= 2

\* a call of backtrack has just returned; returned[1] holds its value and
\* the state it was entered in
JustReturned == pc \in {"recursed", "backtracked"} /\ returned # <<>>

\* C32: when a trial digit fails, the tried cell is reverted to empty and its
\* candidate set is restored to the set it had immediately before the trial:
\* after a backtrack call that returns false, the candidate set of the cell
\* it worked on equals the set that cell had when the call was entered (also
\* when the logical phase had narrowed that set beyond what the placed peers
\* imply).
C32_CellSetRestored ==
  (JustReturned /\ ~returned[1].value) =>
    LET call == returned[1].call
    IN /\ board[call.row][call.col] = 0
       /\ candidates[call.row][call.col] = call.entryCandidates[call.row][call.col]

\* C33: a backtrack call that returns false leaves the board exactly as it
\* was when the call was entered, and no backtrack call appends to or
\* modifies the snapshot list.
C33_Step ==
  /\ snapshots' = snapshots
  /\ (JustReturned' /\ ~returned'[1].value) => board' = returned'[1].call.entryBoard

C33_FalseReturnLeavesBoard == [][C33_Step]_vars

\* a call that placed a trial digit has returned false, in a search that
\* started from a game with strategy snapshots
C33_Witness ==
  /\ JustReturned
  /\ ~returned[1].value
  /\ returned[1].call.placed
  /\ Len(snapshots) > 1

\* b can be completed: some digit the row, column and box of its first empty
\* cell do not hold leads to a grid that can be completed
RECURSIVE HasCompletion(_)
HasCompletion(b) ==
  IF isComplete(b) THEN NoRepeat(b)
  ELSE LET cell == CHOOSE rc \in Idx \X Idx : IsFirstEmpty(b, rc[1], rc[2])
       IN \E d \in Digits \ PlacedAround(b, cell[1], cell[2]) :
            HasCompletion([b EXCEPT ![cell[1]][cell[2]] = d])

\* the call that has just returned was entered on a board without a repeated
\* digit, with the candidates buildCandidates gives for that board
EnteredFresh(call) ==
  /\ NoRepeat(call.entryBoard)
  /\ call.entryCandidates = buildCandidates(call.entryBoard)

\* C34: called on a board with no repeated digit and candidates equal to
\* buildCandidates of that board, backtrack returns true exactly when the
\* board has a valid completion; when it returns true the board has no empty
\* cell and no repeated digit and agrees with the entry board on every cell
\* that was filled on entry.
C34_BacktrackDecides ==
  (JustReturned /\ EnteredFresh(returned[1].call)) =>
    LET call == returned[1].call
    IN /\ returned[1].value <=> HasCompletion(call.entryBoard)
       /\ returned[1].value =>
            /\ isComplete(board)
            /\ NoRepeat(board)
            /\ \A r \in Idx : \A c \in Idx :
                 call.entryBoard[r][c] # 0 => board[r][c] = call.entryBoard[r][c]

\* the outermost call, entered on a freshly built game, has tried a digit
\* and returned false
C34_Witness ==
  /\ pc = "backtracked"
  /\ EnteredFresh(returned[1].call)
  /\ returned[1].call.placed
  /\ ~returned[1].value

(***************************************************************************)
(* Properties of solveSudoku, continued                                    *)
(***************************************************************************)

\* the argument is a string of 81 characters, each '.', '0' or '1'..'9'
WellFormedString ==
  /\ IsString(startingBoard)
  /\ Len(startingBoard) = 81
  /\ \A k \in 1 .. 81 : startingBoard[k] \in PuzzleChars

\* the number a character of a puzzle string stands for
CharValue(char) ==
  IF char \in {".", "0"} THEN 0 ELSE CHOOSE d \in Digits : ToString(d) = char

\* the matrix a well-formed string describes, row by row
MatrixOf(s) ==
  [row \in Idx |-> [col \in Idx |-> CharValue(s[row * BOARD_SIZE + col + 1])]]

\* C35: for an 81-character string of '.', '0' and '1'..'9', stringToBoard
\* returns the 9x9 matrix that holds 0 for '.' and '0' and the digit's value
\* otherwise, row by row; solving the string gives the same result (board,
\* candidates, snapshots) as solving that matrix with the same options.
C35_StringAsMatrix ==
  WellFormedString =>
    /\ ~stringToBoard(startingBoard).threw
    /\ stringToBoard(startingBoard).board = MatrixOf(startingBoard)
    /\ pc # "error"
    /\ Started => snapshots[1].board = MatrixOf(startingBoard)
    /\ pc = "done" => Game = solveSudoku(MatrixOf(startingBoard), options)

\* a string that writes empty cells both as '.' and as '0' has been solved,
\* and the strategies have filled a cell
C35_Witness ==
  /\ WellFormedString
  /\ \E k \in 1 .. 81 : startingBoard[k] = "."
  /\ \E k \in 1 .. 81 : startingBoard[k] = "0"
  /\ pc = "done"
  /\ Len(snapshots) > 1

\* complete grids used as reference solutions: for every input board of
\* Calls that has completions, two of them (the first found when the digits
\* are tried upwards and the first when they are tried downwards), or all of
\* them when there are at most five
Completions == <<
  \* 1: a completion of board 1
  <<534678912, 672195348, 198342567, 859761423, 426853791,
    713924856, 961537284, 287419635, 345286179>>,
  \* 2: a completion of board 2
  <<123456789, 456789123, 789123456, 231674895, 875912364,
    694538217, 317265948, 542897631, 968341572>>,
  \* 3: a completion of board 2
  <<987654321, 654321987, 321987654, 879436215, 235198746,
    416572893, 793845162, 568213479, 142769538>>,
  \* 4: a completion of board 3
  <<478316529, 169258473, 352794618, 743962185, 285431796,
    691875234, 526189347, 834527961, 917643852>>,
  \* 5: a completion of board 3
  <<478396521, 562781943, 391254678, 743962185, 285413796,
    619875234, 826149357, 134527869, 957638412>>,
  \* 6: a completion of board 4
  <<519432786, 346857129, 287691534, 862314957, 194785263,
    735926418, 623179845, 958243671, 471568392>>,
  \* 7: a completion of board 4
  <<521867394, 946532718, 387491562, 892316457, 614785923,
    753924681, 238679145, 165243879, 479158236>>,
  \* 8: a completion of board 5
  <<357264981, 986135472, 124798356, 718456293, 635912847,
    249873615, 461387529, 592641738, 873529164>>,
  \* 9: a completion of board 5
  <<357164982, 986235471, 124798356, 718456293, 635912847,
    249873615, 461387529, 592641738, 873529164>>,
  \* 10: a completion of board 6
  <<564397812, 237841956, 891526374, 158234769, 723689541,
    946715283, 679153428, 312478695, 485962137>>,
  \* 11: a completion of board 6
  <<534796812, 269841753, 817253964, 958324176, 721689345,
    346517289, 693478521, 472135698, 185962437>>,
  \* 12: a completion of board 10
  <<148375629, 359642718, 672819534, 834527196, 591463872,
    726198453, 215986347, 487231965, 963754281>>,
  \* 13: a completion of board 10
  <<148375926, 739642851, 652981734, 874526193, 596138472,
    321794685, 915267348, 287413569, 463859217>>,
  \* 14: a completion of board 11
  <<461239578, 827651349, 395478216, 136745892, 249183657,
    578926134, 782314965, 953867421, 614592783>>,
  \* 15: a completion of board 11
  <<465239871, 897651342, 321874695, 536947218, 274183569,
    189526734, 942368157, 753412986, 618795423>>,
  \* 16: a completion of board 12
  <<164289375, 859137462, 723465891, 615743289, 498612753,
    237598614, 381926547, 542871936, 976354128>>,
  \* 17: a completion of board 12
  <<186293475, 954187362, 723465981, 635948127, 498712653,
    217536894, 862374519, 549821736, 371659248>>,
  \* 18: a completion of board 13
  <<361794582, 492385167, 758162349, 846521793, 513479628,
    279836451, 924617835, 135948276, 687253914>>,
  \* 19: a completion of board 13
  <<365714982, 492865731, 781932564, 956321478, 814579623,
    273486159, 127698345, 538147296, 649253817>>,
  \* 20: a completion of board 14
  <<173584962, 498623175, 526179438, 265317849, 987452613,
    341896527, 734968251, 852741396, 619235784>>,
  \* 21: a completion of board 14
  <<175824639, 498673125, 263159478, 587312946, 926485713,
    341796582, 734568291, 852941367, 619237854>>,
  \* 22: a completion of board 15
  <<214359786, 857246391, 936718452, 178635249, 342197865,
    569482137, 681923574, 723564918, 495871623>>,
  \* 23: a completion of board 15
  <<394251786, 257386941, 816794352, 148639275, 932875614,
    765412839, 581923467, 423567198, 679148523>>,
  \* 24: a completion of board 16
  <<932651847, 586497312, 471823569, 265389471, 148576293,
    397214658, 629148735, 814735926, 753962184>>,
  \* 25: a completion of board 16
  <<682971345, 973485162, 451623897, 265398471, 718546923,
    394217658, 147859236, 826734519, 539162784>>,
  \* 26: a completion of board 17
  <<943287165, 658143297, 712596483, 394712856, 876459321,
    125638749, 537924618, 469871532, 281365974>>,
  \* 27: a completion of board 17
  <<347291568, 652843197, 918576423, 493752816, 876419352,
    125638974, 584927631, 739164285, 261385749>>,
  \* 28: a completion of board 18
  <<357481629, 189726354, 426539178, 975214836, 618375492,
    234968715, 743652981, 561893247, 892147563>>,
  \* 29: a completion of board 18
  <<357418629, 918672354, 426539871, 271854936, 689723415,
    534961782, 763295148, 145386297, 892147563>>,
  \* 30: a completion of board 19
  <<258674193, 476319528, 139258674, 921763845, 345821967,
    867495312, 694532781, 783146259, 512987436>>,
  \* 31: a completion of board 19
  <<623478195, 471359628, 958216734, 132765849, 894123567,
    567894312, 246537981, 789641253, 315982476>>,
  \* 32: a completion of board 20
  <<298735146, 341629875, 576481923, 815374692, 463952718,
    729816354, 932567481, 654198237, 187243569>>,
  \* 33: a completion of board 20
  <<298735164, 341869275, 576421983, 719348526, 863952417,
    425176398, 934617852, 682594731, 157283649>>,
  \* 34: a completion of board 21
  <<287615493, 653489712, 941372685, 564793128, 329148576,
    178256934, 415837269, 892561347, 736924851>>,
  \* 35: a completion of board 21
  <<287916453, 631475892, 459382761, 594763128, 328194576,
    176258934, 765831249, 843529617, 912647385>>,
  \* 36: a completion of board 22
  <<645139827, 329857641, 817246359, 254761983, 986325714,
    173498562, 498613275, 732584196, 561972438>>,
  \* 37: a completion of board 22
  <<645819327, 829753641, 137246895, 254167983, 986325714,
    713498562, 478631259, 392584176, 561972438>>,
  \* 38: a completion of board 23
  <<176258934, 849173562, 253469781, 324815679, 517936428,
    968742153, 731624895, 685391247, 492587316>>,
  \* 39: a completion of board 23
  <<763218495, 841975623, 259463781, 324156879, 517849362,
    986732514, 138624957, 675391248, 492587136>>,
  \* 40: a completion of board 24
  <<742651983, 168293574, 593874612, 471582369, 359467821,
    286319457, 925148736, 614735298, 837926145>>,
  \* 41: a completion of board 24
  <<743651289, 186294573, 592873614, 478562391, 369417852,
    251389467, 925148736, 614735928, 837926145>>,
  \* 42: a completion of board 25
  <<793451826, 425386791, 618792534, 354879612, 289165473,
    167234985, 872643159, 936518247, 541927368>>,
  \* 43: a completion of board 25
  <<653481927, 927653814, 418792536, 391874652, 284165793,
    576239481, 832547169, 769318245, 145926378>>,
  \* 44: a completion of board 26
  <<675192483, 428375196, 193846257, 261983745, 984517362,
    537624819, 852439671, 316758924, 749261538>>,
  \* 45: a completion of board 26
  <<685792431, 427315986, 391846752, 279153864, 164987325,
    538624179, 852479613, 916538247, 743261598>>,
  \* 46: a completion of board 27
  <<387612459, 264958317, 951473826, 495186273, 813297564,
    726345198, 539861742, 672534981, 148729635>>,
  \* 47: a completion of board 27
  <<389612754, 674539182, 251478369, 896145273, 423987516,
    715263498, 932851647, 567394821, 148726935>>,
  \* 48: a completion of board 28
  <<648231795, 532974168, 197568243, 316457829, 854129376,
    729386451, 281645937, 963712584, 475893612>>,
  \* 49: a completion of board 28
  <<842931657, 536274198, 197865243, 368459721, 754123986,
    921786534, 279648315, 683512479, 415397862>>,
  \* 50: a completion of board 29
  <<519764832, 634128579, 278395614, 782613495, 356947128,
    491852367, 865271943, 123489756, 947536281>>,
  \* 51: a completion of board 29
  <<519764382, 634821579, 782593614, 198672435, 376945128,
    425318967, 861457293, 253189746, 947236851>>,
  \* 52: a completion of board 30
  <<325194786, 617328459, 498567312, 149836527, 586742931,
    732915648, 274683195, 861459273, 953271864>>,
  \* 53: a completion of board 30
  <<352194786, 617328459, 498567312, 149836527, 286745931,
    735912648, 924683175, 871459263, 563271894>>,
  \* 54: a completion of board 30
  <<352194786, 671328459, 498567312, 149836527, 286745931,
    735912648, 924683175, 817459263, 563271894>>,
  \* 55: a completion of board 30
  <<352194786, 671328459, 498576312, 846931527, 219765834,
    735842691, 924683175, 187459263, 563217948>>,
  \* 56: a completion of board 30
  <<352491786, 671328459, 498576312, 186934527, 249765831,
    735812694, 924683175, 867159243, 513247968>>,
  \* 57: a completion of board 31
  <<958174236, 614293578, 273568491, 826731954, 791485362,
    435629817, 349817625, 567942183, 182356749>>,
  \* 58: a completion of board 33
  <<275496183, 648312597, 319758264, 492685731, 157934628,
    863127459, 734569812, 581243976, 926871345>>,
  \* 59: a completion of board 33
  <<375426189, 261398547, 849751263, 492675831, 158934726,
    637812495, 784563912, 513249678, 926187354>>
>>

CompletionGrid(k) ==
  [row \in Idx |-> [col \in Idx |-> DigitAt(Completions[k][row + 1], col)]]

\* S is a complete grid that obeys the rules and agrees with b on b's filled cells
IsCompletionOf(S, b) ==
  /\ \A r \in Idx : \A c \in Idx : b[r][c] = 0 \/ b[r][c] = S[r][c]
  /\ isComplete(S)
  /\ NoRepeat(S)

\* the snapshot keeps S possible: filled cells hold S's digit, the candidates
\* of empty cells contain it
KeepsPossible(sn, S) ==
  \A r \in Idx : \A c \in Idx :
    IF sn.board[r][c] # 0 THEN sn.board[r][c] = S[r][c]
    ELSE S[r][c] \in sn.candidates[r][c]

\* C36: logical deduction never discards a solution: for every input board
\* and every complete valid grid S that agrees with the input on its filled
\* cells, in every snapshot each filled cell holds S's digit and each empty
\* cell's candidate set contains S's digit.
C36_NoSolutionDiscarded ==
  Started =>
    \A k \in 1 .. Len(Completions) :
      LET Kept(S) ==
            IsCompletionOf(S, InputGrid) =>
              \A n \in 1 .. Len(snapshots) : KeepsPossible(snapshots[n], S)
      IN Kept(CompletionGrid(k))

\* two different completions of the input are still possible after a
\* strategy has removed candidates and another has placed a digit
C36_Witness ==
  /\ Started
  /\ \E k1 \in 1 .. Len(Completions) : \E k2 \in (k1 + 1) .. Len(Completions) :
       /\ IsCompletionOf(CompletionGrid(k1), InputGrid)
       /\ IsCompletionOf(CompletionGrid(k2), InputGrid)
  /\ \E n \in 2 .. Len(snapshots) : HasRemoved(snapshots[n])
  /\ \E n \in 2 .. Len(snapshots) : snapshots[n].board # snapshots[n - 1].board

LastSnapshot == snapshots[Len(snapshots)]

\* C37: at the end of every strategy call and when solveSudoku returns, the
\* last snapshot's board and candidate grid equal the live board and
\* candidate grid (every position of the call after the prelude lies between
\* two strategy calls, or at the return).
C37_LastSnapshotIsLive ==
  Started =>
    /\ Len(snapshots) >= 1
    /\ LastSnapshot.board = board
    /\ LastSnapshot.candidates = candidates

\* solveSudoku has returned after a strategy placed a hidden single and
\* another removed candidates
C37_Witness ==
  /\ pc = "done"
  /\ \E n \in 2 .. Len(snapshots) : snapshots[n].kind = "Hidden Single"
  /\ \E n \in 2 .. Len(snapshots) : HasRemoved(snapshots[n])

EliminationKinds ==
  {"Naked Pair", "Naked Triple", "Hidden Pair", "Box Line Reduction", "X-Wing"}

PlacementKinds == {"Naked Single", "Hidden Single"}

\* the (row, col, digit) entries that are candidates in prev and not in sn
CandidatesLost(prev, sn) ==
  {e \in Idx \X Idx \X Digits :
     e[3] \in prev.candidates[e[1]][e[2]] /\ e[3] \notin sn.candidates[e[1]][e[2]]}

\* the cells whose board entry differs between prev and sn
CellsChanged(prev, sn) ==
  {rc \in Idx \X Idx : prev.board[rc[1]][rc[2]] # sn.board[rc[1]][rc[2]]}

\* what a snapshot may differ in from the one before it
SnapshotFrame(prev, sn) ==
  /\ sn.kind \in EliminationKinds =>
       /\ sn.board = prev.board
       /\ HasRemoved(sn)
       /\ sn.highlight.removedCandidates # <<>>
       /\ CandidatesLost(prev, sn) = Range(sn.highlight.removedCandidates)
  /\ sn.kind \in PlacementKinds =>
       /\ Cardinality(CellsChanged(prev, sn)) = 1
       /\ \A rc \in CellsChanged(prev, sn) : prev.board[rc[1]][rc[2]] = 0

\* every snapshot a step appends, compared with the one before it
C38_Step ==
  \A n \in (Len(snapshots) + 1) .. Len(snapshots') :
    n >= 2 => SnapshotFrame(snapshots'[n - 1], snapshots'[n])

\* C38: for every snapshot of kind Naked Pair, Naked Triple, Hidden Pair,
\* Box Line Reduction or X-Wing the board equals the preceding snapshot's
\* board, removedCandidates is non-empty, and the (row, col, digit) entries
\* that are candidates in the preceding snapshot and not in this one are
\* exactly those listed in removedCandidates; for every Naked Single and
\* Hidden Single snapshot the board differs from the preceding one in
\* exactly one cell, which was empty before.
C38_SnapshotFrames == [][C38_Step]_vars

\* a run has recorded placements of both kinds and eliminations of
\* two kinds, one of them listing several entries
C38_Witness ==
  /\ \E n \in 2 .. Len(snapshots) : snapshots[n].kind = "Naked Single"
  /\ \E n \in 2 .. Len(snapshots) : snapshots[n].kind = "Hidden Single"
  /\ Cardinality({snapshots[n].kind : n \in 2 .. Len(snapshots)} \cap EliminationKinds) >= 2
  /\ \E n \in 2 .. Len(snapshots) :
       /\ snapshots[n].kind \in EliminationKinds
       /\ Len(snapshots[n].highlight.removedCandidates) > 1

\* what a step may do to the caller's matrix and to the boards already
\* handed out in snapshots: nothing, whatever it writes to the game's board
C39_Step ==
  /\ startingBoard' = startingBoard
  /\ \A i \in 1 .. Len(snapshots) :
       /\ i <= Len(snapshots')
       /\ snapshots'[i].board = snapshots[i].board

====
